---- MODULE Spec2Model ----
(***************************************************************************)
(* Resource Librarian: the catalog / manifest consistency subsystem.       *)
(*                                                                         *)
(* State: the resource folders under books/ and videos/ (each with its     *)
(* manifest.yaml), the catalog file catalog.yaml at the library root, and  *)
(* the wall clock that save_catalog stamps into last_updated.  Operations: *)
(* the methods of CatalogManager (core/catalog_manager.py), the ingestion  *)
(* pipelines that create resource folders, and manual edits of the files.  *)
(***************************************************************************)
EXTENDS Integers, Sequences, FiniteSets, TLC

VARIABLES
    bookDirs,     \* book folder path -> state of the folder and its manifest.yaml
    videoDirs,    \* video folder path -> state of the folder and its manifest.yaml
    catalogFile,  \* content of <library_root>/catalog.yaml
    now,          \* the wall clock read by datetime.now()
    edits,        \* manual filesystem edits made so far
    last,         \* the last operation: its arguments and what it returned
    procs,        \* concurrent invocations: where each is, what it loaded
    mtimes,       \* book folders by st_mtime, oldest first; equal mtimes share a set
    indexFiles,   \* what IndexGenerator wrote: README.md, the _index files, index.md's
    roots,        \* other paths handed to ResourceLibrary: what each one holds
    files         \* resource folder -> the files in it (manifest.yaml and index.md apart)

vars == <<bookDirs, videoDirs, catalogFile, now, edits, last, procs,
          mtimes, indexFiles, roots, files>>

(***************************************************************************)
(* Bounds of the model.                                                    *)
(***************************************************************************)
\* save_catalog can run while now <= MaxTime: at most MaxTime saves after init.
MaxTime == 3
\* manual edits of the library's files in one behaviour
MaxEdits == 1

(***************************************************************************)
(* Data: manifests, resources, folder paths.                               *)
(***************************************************************************)
\* Optional fields that are None in Python
None == -1

\* slugify on the titles and names the model uses: lower-case, punctuation
\* dropped, runs of blanks and dashes turned into one dash.
slugify(text) ==
    CASE text = "Alpha"    -> "alpha"
      [] text = "Beta"     -> "beta"
      [] text = "Gamma"    -> "gamma"
      [] text = "Doe"      -> "doe"
      [] text = "Jane"     -> "jane"
      [] text = "Chan One" -> "chan-one"
      [] OTHER             -> text

\* parse_author_name on "First Last": (firstname, lastname)
parse_author_name(author) ==
    CASE author = "Jane Doe"   -> <<"Jane", "Doe">>
      [] author = "John Smith" -> <<"John", "Smith">>
      [] OTHER                 -> <<"", author>>

\* f"{slugify(lastname)}-{slugify(firstname)}"
AuthorSlug(firstname, lastname) ==
    CASE firstname = "Jane" /\ lastname = "Doe"   -> "doe-jane"
      [] firstname = "John" /\ lastname = "Smith" -> "smith-john"
      [] firstname = ""                           -> slugify(lastname)
      [] OTHER                                    -> "unknown"

\* create_book_folder_path: "lastname-firstname/title-slug", as path components
create_book_folder_path(title, author) ==
    LET fl == parse_author_name(author)
    IN  <<AuthorSlug(fl[1], fl[2]), slugify(title)>>

\* create_video_folder_name: f"{video_id}__{title_slug}"
create_video_folder_name(video_id, title) ==
    CASE video_id = "X" /\ slugify(title) = "alpha" -> "X__alpha"
      [] video_id = "X" /\ slugify(title) = "beta"  -> "X__beta"
      [] video_id = "Y" /\ slugify(title) = "alpha" -> "Y__alpha"
      [] video_id = "Y" /\ slugify(title) = "beta"  -> "Y__beta"
      [] OTHER                                      -> "other"

\* create_channel_folder_name: f"{channel_slug}__{channel_id}"
create_channel_folder_name(channel_id, channel_title) ==
    CASE channel_id = "UC1" /\ slugify(channel_title) = "chan-one" -> "chan-one__UC1"
      [] OTHER                                                     -> "other"

\* BookManifest (the fields the catalog, the search and the stats read)
BookManifest(title, author, categories, tags, formats, summaries) ==
    [title |-> title, author |-> author, categories |-> categories, tags |-> tags,
     formats |-> formats, summaries |-> summaries]

\* VideoManifest
VideoManifest(videoId, title, channelId, channelTitle, tags, categories, publishedAt, summaries) ==
    [videoId |-> videoId, title |-> title, channelId |-> channelId,
     channelTitle |-> channelTitle, tags |-> tags, categories |-> categories,
     publishedAt |-> publishedAt, summaries |-> summaries]

NoBookManifest == BookManifest("", "", <<>>, <<>>, {}, {})
NoVideoManifest == VideoManifest("", "", "", "", <<>>, <<>>, None, {})

\* Book / Video: a folder path with the manifest held in memory
Book(folder_path, manifest) == [folder_path |-> folder_path, manifest |-> manifest]
Video(folder_path, manifest) == [folder_path |-> folder_path, manifest |-> manifest]

\* LibraryCatalog
LibraryCatalog(books, videos, last_updated) ==
    [books |-> books, videos |-> videos, last_updated |-> last_updated]

EmptyCatalog == LibraryCatalog(<<>>, <<>>, None)

\* Arguments of book ingestion: title, author, categories, tags
BookInputs ==
    { [title |-> "Alpha", author |-> "Jane Doe", categories |-> <<"AI">>, tags |-> <<>>],
      [title |-> "Beta", author |-> "Jane Doe", categories |-> <<>>, tags |-> <<"intro">>] }

\* The manifest book ingestion writes for its arguments
IngestedBookManifest(in) ==
    BookManifest(in.title, in.author, in.categories, in.tags, {"markdown"}, {})

\* The folder book ingestion computes: books_dir / create_book_folder_path(...)
IngestedBookFolder(in) == <<"books">> \o create_book_folder_path(in.title, in.author)

\* video_metadata handed to video ingestion (with the categories argument): one
\* video id fetched under its first title and again after it was retitled
VideoInputs ==
    { [videoId |-> "X", title |-> "Alpha", channelId |-> "UC1", channelTitle |-> "Chan One",
       categories |-> <<"AI">>, publishedAt |-> 7],
      [videoId |-> "X", title |-> "Beta", channelId |-> "UC1", channelTitle |-> "Chan One",
       categories |-> <<>>, publishedAt |-> None] }

IngestedVideoManifest(in) ==
    VideoManifest(in.videoId, in.title, in.channelId, in.channelTitle, <<>>,
                  in.categories, in.publishedAt, {})

IngestedVideoFolder(in) ==
    <<"videos", create_channel_folder_name(in.channelId, in.channelTitle),
      create_video_folder_name(in.videoId, in.title)>>

\* The resource folders of the model
BookFolders == { IngestedBookFolder(in) : in \in BookInputs }
VideoFolders == { IngestedVideoFolder(in) : in \in VideoInputs }

\* What the source file of a book yields when title or author is not given:
\* the EPUB metadata and the metadata found in the extracted text
Metadata(title, author) == [title |-> title, author |-> author]
NoMetadata == Metadata("", "")

\* Book ingestions that leave title or author to the source file
BookInputsFromFile ==
    { [title |-> "", author |-> "Jane Doe", categories |-> <<"AI">>, tags |-> <<>>,
       epub |-> Metadata("Alpha", ""), text |-> NoMetadata],
      [title |-> "", author |-> "", categories |-> <<>>, tags |-> <<"intro">>,
       epub |-> NoMetadata, text |-> Metadata("Beta", "Jane Doe")],
      [title |-> "", author |-> "Jane Doe", categories |-> <<>>, tags |-> <<>>,
       epub |-> NoMetadata, text |-> NoMetadata],
      [title |-> "Beta", author |-> "", categories |-> <<>>, tags |-> <<>>,
       epub |-> Metadata("Alpha", ""), text |-> NoMetadata] }

\* BookParser.extract_epub_metadata / extract_metadata_from_text on the source
\* file of an ingestion (nothing found when the arguments name no such file)
epub_metadata(in) == IF "epub" \in DOMAIN in THEN in.epub ELSE NoMetadata
extracted_metadata(in) == IF "text" \in DOMAIN in THEN in.text ELSE NoMetadata

\* a title that falls back on the name of the source file
TitleOrFileStem(in) ==
    IF in.title # "" THEN in.title
    ELSE IF epub_metadata(in).title # "" THEN epub_metadata(in).title
    ELSE IF extracted_metadata(in).title # "" THEN extracted_metadata(in).title
    ELSE "Alpha"

\* add_book: the title and the author after the metadata extraction: the
\* argument, else the EPUB metadata, else what the text yields ("" for none)
DeterminedTitle(in) ==
    IF in.title # "" THEN in.title
    ELSE IF epub_metadata(in).title # "" THEN epub_metadata(in).title
    ELSE extracted_metadata(in).title

DeterminedAuthor(in) ==
    IF in.author # "" THEN in.author
    ELSE IF epub_metadata(in).author # "" THEN epub_metadata(in).author
    ELSE extracted_metadata(in).author

\* the arguments with the title and the author that were determined
Determined(in) ==
    [title |-> DeterminedTitle(in), author |-> DeterminedAuthor(in),
     categories |-> in.categories, tags |-> in.tags]

\* video_metadata lacking one of video id, title, channel id, channel title
IncompleteVideoInputs ==
    { [videoId |-> "", title |-> "Alpha", channelId |-> "UC1", channelTitle |-> "Chan One",
       categories |-> <<>>, publishedAt |-> None],
      [videoId |-> "X", title |-> "", channelId |-> "UC1", channelTitle |-> "Chan One",
       categories |-> <<>>, publishedAt |-> None],
      [videoId |-> "X", title |-> "Alpha", channelId |-> "", channelTitle |-> "Chan One",
       categories |-> <<>>, publishedAt |-> None],
      [videoId |-> "X", title |-> "Alpha", channelId |-> "UC1", channelTitle |-> "",
       categories |-> <<>>, publishedAt |-> None] }

\* The manifests a file or an in-memory resource can hold: the ingested ones and
\* one rewritten by hand (other title, author, categories, tags, summaries).
BookManifests ==
    { IngestedBookManifest(in) : in \in BookInputs } \cup
    { BookManifest("Gamma", "John Smith", <<"ML">>, <<"x">>, {"markdown", "pdf"}, {"shortform"}) }

VideoManifests ==
    { IngestedVideoManifest(in) : in \in VideoInputs } \cup
    { VideoManifest("Y", "Gamma", "UC2", "Chan Two", <<"x">>, <<"ML">>, 9, {"shortform"}) }

VideoIds == { m.videoId : m \in VideoManifests }

\* A folder: absent; there without manifest.yaml ("nomf"); with a manifest.yaml
\* that fails to parse or validate ("bad"); with a manifest that loads ("ok").
Folder(st, m) == [st |-> st, m |-> m]

(***************************************************************************)
(* The files of a resource folder that its manifest names.                 *)
(***************************************************************************)
\* the extension of the file a format is stored in
format_ext(fmt) ==
    CASE fmt = "markdown" -> "md"
      [] fmt = "epub"     -> "epub"
      [] fmt = "pdf"      -> "pdf"
      [] OTHER            -> fmt

\* The files named by a book manifest, relative to the book folder: formats
\* maps each format to f"{slugify(title)}.{ext}", summaries maps each summary
\* type to a file under summaries/
BookFiles(m) ==
    { <<slugify(m.title), format_ext(f)>> : f \in m.formats } \cup
    { <<"summaries", s>> : s \in m.summaries }

\* The files named by a video manifest: its source mapping (transcript_path,
\* url_file) and its summaries
VideoFiles(m) ==
    { <<"source", "transcript.txt">>, <<"source", "video.url">> } \cup
    { <<"summaries", s>> : s \in m.summaries }

\* The files of the folders as ingestion left them: those the manifest of a
\* folder names, none in a folder without a manifest that loads
FilesAsIngested ==
    [fp \in DOMAIN bookDirs \cup DOMAIN videoDirs |->
        IF fp \in DOMAIN bookDirs
        THEN IF bookDirs[fp].st = "ok" THEN BookFiles(bookDirs[fp].m) ELSE {}
        ELSE IF videoDirs[fp].st = "ok" THEN VideoFiles(videoDirs[fp].m) ELSE {}]

(***************************************************************************)
(* utils/io.py and the models: loading a resource from its folder.         *)
(***************************************************************************)
\* Book.from_folder -> load_book_manifest: raises when the folder or the
\* manifest is missing or the manifest does not parse / validate.
BookFromFolder(fp) ==
    [ok |-> bookDirs[fp].st = "ok", book |-> Book(fp, bookDirs[fp].m)]

VideoFromFolder(fp) ==
    [ok |-> videoDirs[fp].st = "ok", video |-> Video(fp, videoDirs[fp].m)]

\* folder_path.exists()
BookFolderExists(fp) == bookDirs[fp].st # "absent"
VideoFolderExists(fp) == videoDirs[fp].st # "absent"

(***************************************************************************)
(* models/catalog.py: statistics.                                          *)
(***************************************************************************)
RECURSIVE SumCard(_, _)
\* sum(len(f(x)) for x in seq), f being a field holding a set
SumCard(seq, field) ==
    IF seq = <<>> THEN 0
    ELSE Cardinality(Head(seq).manifest[field]) + SumCard(Tail(seq), field)

Elems(seq) == { seq[i] : i \in 1..Len(seq) }

\* get_all_authors / get_all_categories / get_all_tags (as sets)
get_all_authors(c) == { c.books[i].manifest.author : i \in 1..Len(c.books) }
get_all_categories(c) ==
    UNION { Elems(c.books[i].manifest.categories) : i \in 1..Len(c.books) } \cup
    UNION { Elems(c.videos[i].manifest.categories) : i \in 1..Len(c.videos) }
get_all_tags(c) ==
    UNION { Elems(c.books[i].manifest.tags) : i \in 1..Len(c.books) } \cup
    UNION { Elems(c.videos[i].manifest.tags) : i \in 1..Len(c.videos) }

\* LibraryCatalog.get_stats
get_stats(c) ==
    [total_books |-> Len(c.books),
     total_videos |-> Len(c.videos),
     total_items |-> Len(c.books) + Len(c.videos),
     unique_authors |-> Cardinality(get_all_authors(c)),
     unique_categories |-> Cardinality(get_all_categories(c)),
     unique_tags |-> Cardinality(get_all_tags(c)),
     book_formats |-> SumCard(c.books, "formats"),
     book_summaries |-> SumCard(c.books, "summaries"),
     video_summaries |-> SumCard(c.videos, "summaries"),
     last_updated |-> c.last_updated]

(***************************************************************************)
(* core/catalog_manager.py                                                 *)
(***************************************************************************)
\* The projection of a book / a video that save_catalog writes
BookEntry(b) ==
    [title |-> b.manifest.title, author |-> b.manifest.author,
     folder_path |-> b.folder_path, categories |-> b.manifest.categories,
     tags |-> b.manifest.tags]

VideoEntry(v) ==
    [video_id |-> v.manifest.videoId, title |-> v.manifest.title,
     channel_id |-> v.manifest.channelId, channel_title |-> v.manifest.channelTitle,
     folder_path |-> v.folder_path, categories |-> v.manifest.categories,
     tags |-> v.manifest.tags, published_at |-> v.manifest.publishedAt]

\* The catalog file: absent, unparseable ("corrupt"), or the saved data
CatalogData(st, last_updated, books, videos, stats) ==
    [st |-> st, last_updated |-> last_updated, books |-> books, videos |-> videos,
     stats |-> stats]

AbsentFile == CatalogData("absent", None, <<>>, <<>>, get_stats(EmptyCatalog))
CorruptFile == CatalogData("corrupt", None, <<>>, <<>>, get_stats(EmptyCatalog))

\* a save that writes the book entries only
SavedFileBooksOnly(c, t) ==
    LET stamped == LibraryCatalog(c.books, c.videos, t)
    IN  CatalogData("ok", t,
                    [i \in 1..Len(c.books) |-> BookEntry(c.books[i])],
                    <<>>,
                    get_stats(stamped))

\* save_catalog: stamps last_updated with the clock, writes the projections of
\* the catalog's resources and its stats over the catalog file.
SavedFile(c, t) ==
    LET stamped == LibraryCatalog(c.books, c.videos, t)
    IN  CatalogData("ok", t,
                    [i \in 1..Len(c.books) |-> BookEntry(c.books[i])],
                    [i \in 1..Len(c.videos) |-> VideoEntry(c.videos[i])],
                    get_stats(stamped))

\* a check that takes every path for an existing file
CatalogFileAlwaysThere == TRUE

\* self.catalog_path.exists()
CatalogFileExists == catalogFile.st # "absent"

\* a load that trusts the fields of the catalog file's entries instead of
\* reading them again from the manifests
LoadCatalogCached ==
    IF catalogFile.st = "absent" THEN [ok |-> TRUE, catalog |-> EmptyCatalog]
    ELSE IF catalogFile.st # "ok" THEN [ok |-> FALSE, catalog |-> EmptyCatalog]
    ELSE
      LET be == SelectSeq(catalogFile.books, LAMBDA e : BookFolderExists(e.folder_path))
          ve == SelectSeq(catalogFile.videos, LAMBDA e : VideoFolderExists(e.folder_path))
          bm(e) == bookDirs[e.folder_path].m
          vm(e) == videoDirs[e.folder_path].m
      IN  [ok |-> /\ \A i \in 1..Len(be) : BookFromFolder(be[i].folder_path).ok
                  /\ \A i \in 1..Len(ve) : VideoFromFolder(ve[i].folder_path).ok,
           catalog |-> LibraryCatalog(
               [i \in 1..Len(be) |->
                   Book(be[i].folder_path,
                        [bm(be[i]) EXCEPT !.title = be[i].title, !.author = be[i].author,
                                          !.categories = be[i].categories,
                                          !.tags = be[i].tags])],
               [i \in 1..Len(ve) |->
                   Video(ve[i].folder_path,
                         [vm(ve[i]) EXCEPT !.title = ve[i].title,
                                           !.channelTitle = ve[i].channel_title,
                                           !.categories = ve[i].categories,
                                           !.tags = ve[i].tags])],
               catalogFile.last_updated)]

\* a load that skips the entries whose manifest does not load
LoadCatalogSkipping ==
    IF ~CatalogFileExists THEN [ok |-> TRUE, catalog |-> EmptyCatalog]
    ELSE IF catalogFile.st # "ok" THEN [ok |-> FALSE, catalog |-> EmptyCatalog]
    ELSE
      LET be == SelectSeq(catalogFile.books, LAMBDA e : BookFromFolder(e.folder_path).ok)
          ve == SelectSeq(catalogFile.videos, LAMBDA e : VideoFromFolder(e.folder_path).ok)
      IN  [ok |-> TRUE,
           catalog |-> LibraryCatalog(
               [i \in 1..Len(be) |-> BookFromFolder(be[i].folder_path).book],
               [i \in 1..Len(ve) |-> VideoFromFolder(ve[i].folder_path).video],
               catalogFile.last_updated)]

\* a load that reads every listed folder, there or not
LoadCatalogStrict ==
    IF ~CatalogFileExists THEN [ok |-> TRUE, catalog |-> EmptyCatalog]
    ELSE IF catalogFile.st # "ok" THEN [ok |-> FALSE, catalog |-> EmptyCatalog]
    ELSE
      LET be == catalogFile.books
          ve == catalogFile.videos
          good == /\ \A i \in 1..Len(be) : BookFromFolder(be[i].folder_path).ok
                  /\ \A i \in 1..Len(ve) : VideoFromFolder(ve[i].folder_path).ok
      IN  IF good
          THEN [ok |-> TRUE,
                catalog |-> LibraryCatalog(
                    [i \in 1..Len(be) |-> BookFromFolder(be[i].folder_path).book],
                    [i \in 1..Len(ve) |-> VideoFromFolder(ve[i].folder_path).video],
                    catalogFile.last_updated)]
          ELSE [ok |-> FALSE, catalog |-> EmptyCatalog]

\* load_catalog: the empty catalog when the file is absent; an error when the
\* file does not parse; else every listed entry whose folder exists, loaded
\* again from its folder (an error when one of them does not load).
LoadCatalog ==
    IF ~CatalogFileExists THEN [ok |-> TRUE, catalog |-> EmptyCatalog]
    ELSE IF catalogFile.st # "ok" THEN [ok |-> FALSE, catalog |-> EmptyCatalog]
    ELSE
      LET be == SelectSeq(catalogFile.books, LAMBDA e : BookFolderExists(e.folder_path))
          ve == SelectSeq(catalogFile.videos, LAMBDA e : VideoFolderExists(e.folder_path))
          good == /\ \A i \in 1..Len(be) : BookFromFolder(be[i].folder_path).ok
                  /\ \A i \in 1..Len(ve) : VideoFromFolder(ve[i].folder_path).ok
      IN  IF good
          THEN [ok |-> TRUE,
                catalog |-> LibraryCatalog(
                    [i \in 1..Len(be) |-> BookFromFolder(be[i].folder_path).book],
                    [i \in 1..Len(ve) |-> VideoFromFolder(ve[i].folder_path).video],
                    catalogFile.last_updated)]
          ELSE [ok |-> FALSE, catalog |-> EmptyCatalog]


\* iterdir() yields the entries of a directory in arbitrary order: every
\* enumeration of the found folders that keeps the folders of one parent
\* directory together (outer loop over author / channel directories).
Orderings(S) ==
    { s \in [1..Cardinality(S) -> S] :
        /\ \A x \in S : \E i \in 1..Cardinality(S) : s[i] = x
        /\ \A i, j, k \in 1..Cardinality(S) :
              (i < j /\ j < k /\ s[i][2] = s[k][2]) => s[j][2] = s[i][2] }

\* a scan that takes every manifest.yaml below books/, at any depth
ScannedBookFoldersAnyDepth ==
    { fp \in DOMAIN bookDirs :
        fp[1] = "books" /\ bookDirs[fp].st \in {"bad", "ok"} }

\* a scan that gives up when the catalog file cannot be read
ScannedBookFoldersIfReadable ==
    IF catalogFile.st = "corrupt" THEN {}
    ELSE { fp \in DOMAIN bookDirs :
             /\ Len(fp) = 3 /\ fp[1] = "books" /\ fp[2] # "_index"
             /\ bookDirs[fp].st \in {"bad", "ok"} }

\* rebuild_catalog, scan of books/: author directories (not _index), then the
\* book directories in them that hold a manifest.yaml
ScannedBookFolders ==
    { fp \in DOMAIN bookDirs :
        /\ Len(fp) = 3 /\ fp[1] = "books" /\ fp[2] # "_index"
        /\ bookDirs[fp].st \in {"bad", "ok"} }

\* rebuild_catalog, scan of videos/: channel directories (not _index), then the
\* video directories in them that hold a manifest.yaml
ScannedVideoFolders ==
    { fp \in DOMAIN videoDirs :
        /\ Len(fp) = 3 /\ fp[1] = "videos" /\ fp[2] # "_index"
        /\ videoDirs[fp].st \in {"bad", "ok"} }

\* a rebuild that only takes the folders the catalog file does not list yet
RebuiltBookFoldersNotListed ==
    { fp \in ScannedBookFolders :
        /\ BookFromFolder(fp).ok
        /\ \A i \in 1..Len(catalogFile.books) : catalogFile.books[i].folder_path # fp }

\* a rebuild that takes every scanned video folder, its manifest loading or not
RebuiltVideoFoldersUnchecked == ScannedVideoFolders

\* The scanned folders whose manifest loads; the others raise in from_folder,
\* are reported with a warning and skipped.
RebuiltBookFolders == { fp \in ScannedBookFolders : BookFromFolder(fp).ok }
RebuiltVideoFolders == { fp \in ScannedVideoFolders : VideoFromFolder(fp).ok }
RebuildWarnings ==
    (ScannedBookFolders \ RebuiltBookFolders) \cup (ScannedVideoFolders \ RebuiltVideoFolders)

\* an add that never looks for an entry of the same folder_path
UpsertBookAppend(books, b) == Append(books, b)

\* add_book: the loaded books with b put in place of the entry of its
\* folder_path, or appended when there is none
UpsertBook(books, b) ==
    IF \E i \in 1..Len(books) : books[i].folder_path = b.folder_path
    THEN [i \in 1..Len(books) |->
            IF books[i].folder_path # b.folder_path THEN books[i] ELSE b]
    ELSE Append(books, b)

\* an add_video that takes the channel for the key of a video
UpsertVideoByChannel(videos, v) ==
    IF \E i \in 1..Len(videos) : videos[i].manifest.channelId = v.manifest.channelId
    THEN [i \in 1..Len(videos) |->
            IF videos[i].manifest.channelId # v.manifest.channelId THEN videos[i] ELSE v]
    ELSE Append(videos, v)

\* add_video: the same, by video_id
UpsertVideo(videos, v) ==
    IF \E i \in 1..Len(videos) : videos[i].manifest.videoId = v.manifest.videoId
    THEN [i \in 1..Len(videos) |->
            IF videos[i].manifest.videoId # v.manifest.videoId THEN videos[i] ELSE v]
    ELSE Append(videos, v)

\* remove_book / remove_video: the list without the matching entries
WithoutBook(books, fp) == SelectSeq(books, LAMBDA b : b.folder_path # fp)
WithoutVideo(videos, id) == SelectSeq(videos, LAMBDA v : v.manifest.videoId # id)

(***************************************************************************)
(* Text: str.lower() and the "in" substring test, on the characters of the *)
(* strings the model uses.                                                 *)
(***************************************************************************)
\* The characters of a string
Chars(s) ==
    CASE s = ""           -> <<>>
      [] s = "Alpha"      -> <<"A", "l", "p", "h", "a">>
      [] s = "ALPHA"      -> <<"A", "L", "P", "H", "A">>
      [] s = "Beta"       -> <<"B", "e", "t", "a">>
      [] s = "Gamma"      -> <<"G", "a", "m", "m", "a">>
      [] s = "Jane Doe"   -> <<"J", "a", "n", "e", " ", "D", "o", "e">>
      [] s = "John Smith" -> <<"J", "o", "h", "n", " ", "S", "m", "i", "t", "h">>
      [] s = "Chan One"   -> <<"C", "h", "a", "n", " ", "O", "n", "e">>
      [] s = "Chan Two"   -> <<"C", "h", "a", "n", " ", "T", "w", "o">>
      [] s = "AI"         -> <<"A", "I">>
      [] s = "ML"         -> <<"M", "L">>
      [] s = "intro"      -> <<"i", "n", "t", "r", "o">>
      [] s = "x"          -> <<"x">>
      [] s = "X"          -> <<"X">>
      [] s = "Y"          -> <<"Y">>
      [] s = "jane"       -> <<"j", "a", "n", "e">>
      [] s = "SMITH"      -> <<"S", "M", "I", "T", "H">>
      [] s = "a"          -> <<"a">>
      [] s = "lp"         -> <<"l", "p">>
      [] s = "one"        -> <<"o", "n", "e">>
      [] s = "UC1"        -> <<"U", "C", "1">>

\* str.lower() of one character
LowerChar(ch) ==
    CASE ch = "A" -> "a" [] ch = "B" -> "b" [] ch = "C" -> "c" [] ch = "D" -> "d"
      [] ch = "G" -> "g" [] ch = "H" -> "h" [] ch = "I" -> "i" [] ch = "J" -> "j"
      [] ch = "L" -> "l" [] ch = "M" -> "m" [] ch = "N" -> "n" [] ch = "O" -> "o"
      [] ch = "P" -> "p" [] ch = "S" -> "s" [] ch = "T" -> "t" [] ch = "X" -> "x"
      [] ch = "Y" -> "y"
      [] OTHER -> ch

\* s.lower(), as characters
Lower(s) == [i \in 1..Len(Chars(s)) |-> LowerChar(Chars(s)[i])]

\* a in b, on character sequences
Within(a, b) ==
    \E i \in 0..(Len(b) - Len(a)) : \A j \in 1..Len(a) : b[i + j] = a[j]

\* f.lower() in s.lower()
LowerIn(f, s) == Within(Lower(f), Lower(s))

\* f.lower() == s.lower()
LowerEq(f, s) == Lower(f) = Lower(s)

\* any(f.lower() in x.lower() for x in list)
AnyLowerIn(f, list) == \E i \in 1..Len(list) : LowerIn(f, list[i])

\* An Optional[str] argument: <<>> for None, <<s>> for the string s
Omitted == <<>>
Given(s) == <<s>>

\* The truth value of an Optional[str] argument in "if author and ...":
\* None and the empty string are both false
Truthy(f) == f # Omitted /\ f[1] # ""

(***************************************************************************)
(* models/catalog.py: find and search.                                     *)
(***************************************************************************)
\* a search that keeps a book as soon as one supplied filter matches it
search_books_any(c, author, category, tag, title) ==
    SelectSeq(c.books, LAMBDA b :
        \/ ~(Truthy(author) \/ Truthy(category) \/ Truthy(tag) \/ Truthy(title))
        \/ Truthy(author) /\ LowerIn(author[1], b.manifest.author)
        \/ Truthy(category) /\ AnyLowerIn(category[1], b.manifest.categories)
        \/ Truthy(tag) /\ AnyLowerIn(tag[1], b.manifest.tags)
        \/ Truthy(title) /\ LowerIn(title[1], b.manifest.title))

\* LibraryCatalog.search_books
search_books(c, author, category, tag, title) ==
    SelectSeq(c.books, LAMBDA b :
        /\ ~(Truthy(author) /\ ~LowerIn(author[1], b.manifest.author))
        /\ ~(Truthy(category) /\ ~AnyLowerIn(category[1], b.manifest.categories))
        /\ ~(Truthy(tag) /\ ~AnyLowerIn(tag[1], b.manifest.tags))
        /\ ~(Truthy(title) /\ ~LowerIn(title[1], b.manifest.title)))

\* LibraryCatalog.search_videos
search_videos(c, channel, category, tag, title) ==
    SelectSeq(c.videos, LAMBDA v :
        /\ ~(Truthy(channel) /\ ~LowerIn(channel[1], v.manifest.channelTitle))
        /\ ~(Truthy(category) /\ ~AnyLowerIn(category[1], v.manifest.categories))
        /\ ~(Truthy(tag) /\ ~AnyLowerIn(tag[1], v.manifest.tags))
        /\ ~(Truthy(title) /\ ~LowerIn(title[1], v.manifest.title)))

\* a find that compares the titles as they are written
find_book_exact(c, title) ==
    LET hits == SelectSeq(c.books, LAMBDA b : b.manifest.title = title)
    IN  IF hits = <<>> THEN <<>> ELSE <<Head(hits)>>

\* LibraryCatalog.find_book: the first book whose lower-cased title is the
\* lower-cased argument, as an Optional (<<>> for None)
find_book(c, title) ==
    LET hits == SelectSeq(c.books, LAMBDA b : LowerEq(b.manifest.title, title))
    IN  IF hits = <<>> THEN <<>> ELSE <<Head(hits)>>

\* LibraryCatalog.find_video: the first video of that video_id
find_video(c, video_id) ==
    LET hits == SelectSeq(c.videos, LAMBDA v : v.manifest.videoId = video_id)
    IN  IF hits = <<>> THEN <<>> ELSE <<Head(hits)>>

(***************************************************************************)
(* core/index_generator.py: the generated index files.                     *)
(***************************************************************************)
\* Where Python's string comparison puts the strings the indices sort by
StrOrder(s) ==
    CASE s = "AI"         -> 1
      [] s = "Alpha"      -> 2
      [] s = "Beta"       -> 3
      [] s = "Chan One"   -> 4
      [] s = "Chan Two"   -> 5
      [] s = "Gamma"      -> 6
      [] s = "Jane Doe"   -> 7
      [] s = "John Smith" -> 8
      [] s = "ML"         -> 9
      [] OTHER            -> 0

\* sorted(seq, key=...): ascending, equal keys stay in the order they had;
\* key maps each element to what the key function returns for it
StableSort(s, key) ==
    LET Before(i) == { j \in 1..Len(s) :
                         \/ key[s[j]] < key[s[i]]
                         \/ (key[s[j]] = key[s[i]] /\ j < i) }
    IN  [k \in 1..Len(s) |-> s[CHOOSE i \in 1..Len(s) : Cardinality(Before(i)) = k - 1]]

\* sorted(seq, key=..., reverse=True): descending, equal keys stay in order
StableSortReverse(s, key) ==
    LET Before(i) == { j \in 1..Len(s) :
                         \/ key[s[j]] > key[s[i]]
                         \/ (key[s[j]] = key[s[i]] /\ j < i) }
    IN  [k \in 1..Len(s) |-> s[CHOOSE i \in 1..Len(s) : Cardinality(Before(i)) = k - 1]]

\* book.folder_path.stat().st_mtime, as the place of the folder among the
\* modification times of the book folders
st_mtime(fp) == CHOOSE i \in 1..Len(mtimes) : fp \in mtimes[i]

\* The folders whose st_mtime the file system just set: `groups` in the order
\* of the writes, the folders of one group written within one clock tick
Touched(ms, groups) ==
    LET all == UNION { groups[i] : i \in 1..Len(groups) }
        kept == SelectSeq([i \in 1..Len(ms) |-> ms[i] \ all], LAMBDA g : g # {})
    IN  kept \o groups

\* _get_recent_additions: the books by the mtime of their folder (newest first)
recent_limit == 5

_get_recent_additions(c) ==
    LET there == SelectSeq(c.books, LAMBDA b : BookFolderExists(b.folder_path))
        byTime == StableSortReverse(there, [b \in Elems(there) |-> st_mtime(b.folder_path)])
    IN  SubSeq(byTime, 1, IF Len(byTime) < recent_limit THEN Len(byTime) ELSE recent_limit)

\* An index file: the "Last updated" line and the rest
IndexFile(stamp, body) == [stamp |-> stamp, body |-> body]

\* generate_root_readme: the statistics and the recent additions
generate_root_readme(c) ==
    [total_books |-> get_stats(c).total_books,
     total_videos |-> get_stats(c).total_videos,
     unique_authors |-> get_stats(c).unique_authors,
     formats |-> SumCard(c.books, "formats"),
     summaries |-> SumCard(c.books, "summaries") + SumCard(c.videos, "summaries"),
     recent |-> [i \in 1..Len(_get_recent_additions(c)) |->
                   LET b == _get_recent_additions(c)[i]
                   IN  <<b.manifest.title, b.manifest.author, b.folder_path>>]]

\* generate_authors_index: the authors sorted, the books of each by title
generate_authors_index(c) ==
    LET byTitle == StableSort(c.books, [b \in Elems(c.books) |-> StrOrder(b.manifest.title)])
        byAuthor == StableSort(byTitle, [b \in Elems(byTitle) |-> StrOrder(b.manifest.author)])
    IN  [i \in 1..Len(byAuthor) |->
           <<byAuthor[i].manifest.author, byAuthor[i].manifest.title,
             byAuthor[i].folder_path>>]

\* generate_titles_index: the books by lower-cased title (the titles of the
\* model differ in their first letter, so the lower-cased order is StrOrder)
generate_titles_index(c) ==
    LET byTitle == StableSort(c.books, [b \in Elems(c.books) |-> StrOrder(b.manifest.title)])
    IN  [i \in 1..Len(byTitle) |-> <<byTitle[i].manifest.title, byTitle[i].folder_path>>]

\* generate_channels_index: the channels sorted, the videos of each by title
generate_channels_index(c) ==
    LET byTitle == StableSort(c.videos, [v \in Elems(c.videos) |-> StrOrder(v.manifest.title)])
        byChannel == StableSort(byTitle, [v \in Elems(byTitle) |-> StrOrder(v.manifest.channelTitle)])
    IN  [i \in 1..Len(byChannel) |->
           <<byChannel[i].manifest.channelTitle, byChannel[i].manifest.title,
             byChannel[i].folder_path>>]

\* generate_video_titles_index: the videos by lower-cased title
generate_video_titles_index(c) ==
    LET byTitle == StableSort(c.videos, [v \in Elems(c.videos) |-> StrOrder(v.manifest.title)])
    IN  [i \in 1..Len(byTitle) |-> <<byTitle[i].manifest.title, byTitle[i].folder_path>>]

RECURSIVE CategoryItems(_, _)
\* category_items: one (category, kind, resource) per category of each resource
CategoryItems(seq, kind) ==
    IF seq = <<>> THEN <<>>
    ELSE LET x == Head(seq)
         IN  [i \in 1..Len(x.manifest.categories) |->
                <<x.manifest.categories[i], kind, x.manifest.title, x.folder_path>>]
             \o CategoryItems(Tail(seq), kind)

\* generate_category_index: the categories sorted; under each its books and
\* then its videos, in catalog order
generate_category_index(c) ==
    LET items == CategoryItems(c.books, "book") \o CategoryItems(c.videos, "video")
    IN  StableSort(items, [it \in Elems(items) |-> StrOrder(it[1])])

\* the channel folder of a video folder: video.folder_path.parent
ChannelDirs == { SubSeq(fp, 1, 2) : fp \in VideoFolders }

\* datetime.min, the sort key of a video without publication date: before
\* every date, and without time zone
datetime_min == None

\* the key generate_channel_indices sorts a video by
published_key(v) ==
    IF v.manifest.publishedAt # None THEN v.manifest.publishedAt ELSE datetime_min

\* whether a sort key carries a time zone: the dates of the manifests were
\* parsed from the "...Z" strings of the YouTube API and carry UTC,
\* datetime.min carries none
aware(key) == key # datetime_min

\* the videos of the catalog that lie in one channel folder
videos_by_channel_dir(c, dir) ==
    SelectSeq(c.videos, LAMBDA v : SubSeq(v.folder_path, 1, 2) = dir)

\* sorted() compares the keys of the videos of one channel folder: TypeError
\* (can't compare offset-naive and offset-aware datetimes) when they are of
\* both kinds
channel_sort_raises(c, dir) ==
    \E v, w \in Elems(videos_by_channel_dir(c, dir)) :
        aware(published_key(v)) # aware(published_key(w))

\* generate_channel_indices: the videos of one channel folder, the most
\* recently published first, those without a date (datetime.min) last
generate_channel_index(c, dir) ==
    LET videos == videos_by_channel_dir(c, dir)
        byDate == StableSortReverse(videos, [v \in Elems(videos) |-> published_key(v)])
    IN  [i \in 1..Len(byDate) |-> <<byDate[i].manifest.title, byDate[i].folder_path>>]

\* where the first video of a channel folder stands in the catalog: the
\* channel folders are visited in that order
first_video(c, dir) ==
    CHOOSE i \in 1..Len(c.videos) :
        /\ SubSeq(c.videos[i].folder_path, 1, 2) = dir
        /\ \A j \in 1..(i - 1) : SubSeq(c.videos[j].folder_path, 1, 2) # dir

\* generate_channel_indices reaches the channel folder and writes its index.md
channel_index_written(c, dir) ==
    /\ videos_by_channel_dir(c, dir) # <<>>
    /\ \A d \in ChannelDirs :
          (videos_by_channel_dir(c, d) # <<>> /\ channel_sort_raises(c, d))
              => first_video(c, dir) < first_video(c, d)

\* generate_all_indices stops with the TypeError of generate_channel_indices
generate_all_indices_raises(c) == \E d \in ChannelDirs : channel_sort_raises(c, d)

\* generate_book_index: index.md of one book folder
generate_book_index(book) ==
    [title |-> book.manifest.title, author |-> book.manifest.author,
     categories |-> book.manifest.categories, formats |-> book.manifest.formats,
     summaries |-> book.manifest.summaries]

\* generate_video_index: index.md of one video folder
generate_video_index(video) ==
    [title |-> video.manifest.title, channel |-> video.manifest.channelTitle,
     video_id |-> video.manifest.videoId, categories |-> video.manifest.categories,
     summaries |-> video.manifest.summaries]

\* The index files before any generation: the placeholders of a new library
\* and no index.md in any resource folder
NoIndexFiles ==
    [readme |-> IndexFile(None, generate_root_readme(EmptyCatalog)),
     authors |-> IndexFile(None, <<>>), titles |-> IndexFile(None, <<>>),
     channels |-> IndexFile(None, <<>>), video_titles |-> IndexFile(None, <<>>),
     categories |-> IndexFile(None, <<>>),
     channel |-> [d \in ChannelDirs |-> IndexFile(None, <<>>)],
     book |-> [fp \in BookFolders |-> <<>>],
     video |-> [fp \in VideoFolders |-> <<>>]]

\* the last index.md written for a folder of the catalog (a folder listed twice
\* is written twice)
LastOf(seq, fp) ==
    LET hits == SelectSeq(seq, LAMBDA x : x.folder_path = fp)
    IN  hits[Len(hits)]

\* generate_all_indices: every file it writes, the others as they were (the
\* video and category indices are left alone when there is nothing to list).
\* When generate_channel_indices raises, the files written before stay and the
\* index.md of the resources are never reached.
generate_all_indices(c, old, stamp) ==
    [readme |-> IndexFile(stamp, generate_root_readme(c)),
     authors |-> IndexFile(stamp, generate_authors_index(c)),
     titles |-> IndexFile(stamp, generate_titles_index(c)),
     channels |-> IF c.videos = <<>> THEN old.channels
                  ELSE IndexFile(stamp, generate_channels_index(c)),
     video_titles |-> IF c.videos = <<>> THEN old.video_titles
                      ELSE IndexFile(stamp, generate_video_titles_index(c)),
     categories |-> IF generate_category_index(c) = <<>> THEN old.categories
                    ELSE IndexFile(stamp, generate_category_index(c)),
     channel |-> [d \in ChannelDirs |->
                    IF channel_index_written(c, d)
                    THEN IndexFile(stamp, generate_channel_index(c, d))
                    ELSE old.channel[d]],
     book |-> [fp \in DOMAIN old.book |->
                 IF /\ ~generate_all_indices_raises(c)
                    /\ \E i \in 1..Len(c.books) : c.books[i].folder_path = fp
                 THEN <<generate_book_index(LastOf(c.books, fp))>>
                 ELSE old.book[fp]],
     video |-> [fp \in DOMAIN old.video |->
                  IF /\ ~generate_all_indices_raises(c)
                     /\ \E i \in 1..Len(c.videos) : c.videos[i].folder_path = fp
                  THEN <<generate_video_index(LastOf(c.videos, fp))>>
                  ELSE old.video[fp]]]

(***************************************************************************)
(* library.py: ResourceLibrary.initialize and exists, on paths other than  *)
(* the root of the library above.                                          *)
(***************************************************************************)
RootPaths == {"r1", "r2"}

\* What a path holds: nothing, a plain file, or a directory with its entries
\* (relative paths) and its catalog.yaml
Root(st, entries, catalog) == [st |-> st, entries |-> entries, catalog |-> catalog]
NoRoot == Root("absent", {}, AbsentFile)

\* The directories and placeholder files initialize creates under the root
LibraryEntries ==
    {"_index", "_index/README.md",
     "books", "books/_index", "books/_index/authors.md", "books/_index/titles.md",
     "videos", "videos/_index", "videos/_index/channels.md"}

\* Path.exists() of the root
RootExists(p) == roots[p].st # "absent"

\* a check that looks for the root directory only
exists_root_only(p) == roots[p].st = "dir"

\* ResourceLibrary.exists: root, catalog.yaml, books/ and videos/ all there
exists(p) ==
    /\ roots[p].st = "dir"
    /\ roots[p].catalog.st # "absent"
    /\ "books" \in roots[p].entries
    /\ "videos" \in roots[p].entries

(***************************************************************************)
(* The record of the last operation.                                       *)
(***************************************************************************)
NoBook == Book(<<>>, NoBookManifest)
NoVideo == Video(<<>>, NoVideoManifest)

\* what is kept of the operation before the last one
NoPrev == [op |-> "none", ok |-> TRUE, ret |-> FALSE, path |-> <<>>, vid |-> ""]

NoOp ==
    [op |-> "none", prev |-> NoPrev, ok |-> TRUE, ret |-> FALSE,
     book |-> NoBook, video |-> NoVideo, path |-> <<>>, vid |-> "",
     loaded |-> EmptyCatalog, result |-> EmptyCatalog, warnings |-> {},
     query |-> <<>>, found |-> <<>>, input |-> <<>>, error |-> ""]

Op(name) ==
    [NoOp EXCEPT !.op = name,
                 !.prev = [op |-> last.op, ok |-> last.ok, ret |-> last.ret,
                           path |-> last.path, vid |-> last.vid]]

(***************************************************************************)
(* Concurrent invocations of the catalog's write operations: each one      *)
(* loads (or scans), then saves, with nothing held in between.             *)
(***************************************************************************)
Procs == {"p1", "p2"}

Idle ==
    [pc |-> "idle", op |-> "none", book |-> NoBook, video |-> NoVideo,
     local |-> EmptyCatalog, loadedAt |-> 0, savedAt |-> 0, error |-> "",
     before |-> <<>>]

(***************************************************************************)
(* Initial state: a library just created by ResourceLibrary.initialize.    *)
(***************************************************************************)
Init ==
    /\ bookDirs = [fp \in BookFolders |-> Folder("absent", NoBookManifest)]
    /\ videoDirs = [fp \in VideoFolders |-> Folder("absent", NoVideoManifest)]
    /\ catalogFile = SavedFile(EmptyCatalog, 0)
    /\ now = 1
    /\ edits = 0
    /\ last = NoOp
    /\ procs = [p \in Procs |-> Idle]
    /\ mtimes = <<>>
    /\ indexFiles = NoIndexFiles
    /\ roots = [p \in RootPaths |-> NoRoot]
    /\ files = FilesAsIngested

(***************************************************************************)
(* Ingestion: creates the resource folder and its manifest, never touches  *)
(* the catalog.                                                            *)
(***************************************************************************)
\* an ingestion that writes into the folder it finds
BookIngestOverwrite(in) ==
    LET d == Determined(in)
        fp == IngestedBookFolder(d)
        m == IngestedBookManifest(d)
    IN  /\ IF d.title = "" \/ d.author = ""
           THEN /\ last' = [Op("ingest_book") EXCEPT !.ok = FALSE, !.input = <<in>>,
                                                     !.error = "validation"]
                /\ UNCHANGED <<bookDirs, mtimes, files>>
           ELSE /\ bookDirs' = [bookDirs EXCEPT ![fp] = Folder("ok", m)]
                /\ mtimes' = Touched(mtimes, <<{fp}>>)
                /\ files' = [files EXCEPT ![fp] = BookFiles(m)]
                /\ last' = [Op("ingest_book") EXCEPT !.book = Book(fp, m), !.path = fp,
                                                     !.input = <<in>>]
        /\ UNCHANGED <<videoDirs, catalogFile, now, edits, procs, indexFiles, roots>>

\* BookIngestion.add_book: ValueError when title or author is not determined,
\* ValueError when the book folder exists, else the folder with its manifest
BookIngest(in) ==
    LET d == Determined(in)
        fp == IngestedBookFolder(d)
        m == IngestedBookManifest(d)
    IN  /\ IF d.title = "" \/ d.author = ""
           THEN /\ last' = [Op("ingest_book") EXCEPT !.ok = FALSE, !.input = <<in>>,
                                                     !.error = "validation"]
                /\ UNCHANGED <<bookDirs, mtimes, files>>
           ELSE IF BookFolderExists(fp)
           THEN /\ last' = [Op("ingest_book") EXCEPT !.ok = FALSE, !.path = fp,
                                                     !.input = <<in>>, !.error = "exists"]
                /\ UNCHANGED <<bookDirs, mtimes, files>>
           ELSE /\ bookDirs' = [bookDirs EXCEPT ![fp] = Folder("ok", m)]
                /\ mtimes' = Touched(mtimes, <<{fp}>>)
                /\ files' = [files EXCEPT ![fp] = BookFiles(m)]
                /\ last' = [Op("ingest_book") EXCEPT !.book = Book(fp, m), !.path = fp,
                                                     !.input = <<in>>]
        /\ UNCHANGED <<videoDirs, catalogFile, now, edits, procs, indexFiles, roots>>

\* VideoIngestion.add_video: ValueError when a required field is missing,
\* ValueError when the video folder exists, else the folder with its manifest
VideoIngest(in) ==
    LET fp == IngestedVideoFolder(in)
        m == IngestedVideoManifest(in)
    IN  /\ IF in.videoId = "" \/ in.title = "" \/ in.channelId = "" \/ in.channelTitle = ""
           THEN /\ last' = [Op("ingest_video") EXCEPT !.ok = FALSE, !.input = <<in>>,
                                                      !.error = "validation"]
                /\ UNCHANGED <<videoDirs, files>>
           ELSE IF VideoFolderExists(fp)
           THEN /\ last' = [Op("ingest_video") EXCEPT !.ok = FALSE, !.path = fp,
                                                      !.input = <<in>>, !.error = "exists"]
                /\ UNCHANGED <<videoDirs, files>>
           ELSE /\ videoDirs' = [videoDirs EXCEPT ![fp] = Folder("ok", m)]
                /\ files' = [files EXCEPT ![fp] = VideoFiles(m)]
                /\ last' = [Op("ingest_video") EXCEPT !.video = Video(fp, m), !.path = fp,
                                                      !.input = <<in>>]
        /\ UNCHANGED <<bookDirs, catalogFile, now, edits, procs, mtimes, indexFiles, roots>>

(***************************************************************************)
(* CatalogManager                                                          *)
(***************************************************************************)
\* load_catalog
Load ==
    LET r == LoadCatalog
    IN  /\ last' = [Op("load") EXCEPT !.ok = r.ok, !.result = r.catalog]
        /\ UNCHANGED <<bookDirs, videoDirs, catalogFile, now, edits, procs, mtimes, indexFiles, files, roots>>

\* rebuild_catalog
Rebuild ==
    /\ now <= MaxTime
    /\ \E bs \in Orderings(RebuiltBookFolders), vs \in Orderings(RebuiltVideoFolders) :
         LET c == LibraryCatalog([i \in 1..Len(bs) |-> BookFromFolder(bs[i]).book],
                                 [i \in 1..Len(vs) |-> VideoFromFolder(vs[i]).video],
                                 now)
         IN  /\ catalogFile' = SavedFile(c, now)
             /\ last' = [Op("rebuild") EXCEPT !.result = c, !.warnings = RebuildWarnings]
    /\ now' = now + 1
    /\ UNCHANGED <<bookDirs, videoDirs, edits, procs, mtimes, indexFiles, files, roots>>

\* add_book
AddBook(b) ==
    LET r == LoadCatalog
        c == LibraryCatalog(UpsertBook(r.catalog.books, b), r.catalog.videos, now)
    IN  /\ now <= MaxTime
        /\ IF r.ok
           THEN /\ catalogFile' = SavedFile(c, now)
                /\ now' = now + 1
                /\ last' = [Op("add_book") EXCEPT !.book = b, !.loaded = r.catalog,
                                                  !.result = c]
           ELSE /\ last' = [Op("add_book") EXCEPT !.book = b, !.ok = FALSE]
                /\ UNCHANGED <<catalogFile, now>>
        /\ UNCHANGED <<bookDirs, videoDirs, edits, procs, mtimes, indexFiles, files, roots>>

\* add_video
AddVideo(v) ==
    LET r == LoadCatalog
        c == LibraryCatalog(r.catalog.books, UpsertVideo(r.catalog.videos, v), now)
    IN  /\ now <= MaxTime
        /\ IF r.ok
           THEN /\ catalogFile' = SavedFile(c, now)
                /\ now' = now + 1
                /\ last' = [Op("add_video") EXCEPT !.video = v, !.loaded = r.catalog,
                                                   !.result = c]
           ELSE /\ last' = [Op("add_video") EXCEPT !.video = v, !.ok = FALSE]
                /\ UNCHANGED <<catalogFile, now>>
        /\ UNCHANGED <<bookDirs, videoDirs, edits, procs, mtimes, indexFiles, files, roots>>

\* a removal that also deletes the book's folder from the disk
RemoveBookAndFolder(fp) ==
    LET r == LoadCatalog
        kept == WithoutBook(r.catalog.books, fp)
        c == LibraryCatalog(kept, r.catalog.videos, now)
        found == r.ok /\ Len(kept) < Len(r.catalog.books)
    IN  /\ now <= MaxTime
        /\ last' = [Op("remove_book") EXCEPT !.path = fp, !.ok = r.ok, !.ret = found,
                                             !.loaded = r.catalog,
                                             !.result = IF found THEN c ELSE r.catalog]
        /\ catalogFile' = IF found THEN SavedFile(c, now) ELSE catalogFile
        /\ now' = IF found THEN now + 1 ELSE now
        /\ bookDirs' = IF found
                       THEN [bookDirs EXCEPT ![fp] = Folder("absent", NoBookManifest)]
                       ELSE bookDirs
        /\ UNCHANGED <<videoDirs, edits, procs, mtimes, indexFiles, files, roots>>

\* a remove_book that saves whatever it found
RemoveBookAlwaysSaves(fp) ==
    LET r == LoadCatalog
        kept == WithoutBook(r.catalog.books, fp)
        c == LibraryCatalog(kept, r.catalog.videos, now)
    IN  /\ now <= MaxTime
        /\ IF ~r.ok
           THEN /\ last' = [Op("remove_book") EXCEPT !.path = fp, !.ok = FALSE]
                /\ UNCHANGED <<catalogFile, now>>
           ELSE /\ catalogFile' = SavedFile(c, now)
                /\ now' = now + 1
                /\ last' = [Op("remove_book") EXCEPT !.path = fp,
                                !.ret = Len(kept) < Len(r.catalog.books),
                                !.loaded = r.catalog, !.result = c]
        /\ UNCHANGED <<bookDirs, videoDirs, edits, procs, mtimes, indexFiles, files, roots>>

\* remove_book
RemoveBook(fp) ==
    LET r == LoadCatalog
        kept == WithoutBook(r.catalog.books, fp)
        c == LibraryCatalog(kept, r.catalog.videos, now)
    IN  /\ now <= MaxTime
        /\ IF ~r.ok
           THEN /\ last' = [Op("remove_book") EXCEPT !.path = fp, !.ok = FALSE]
                /\ UNCHANGED <<catalogFile, now>>
           ELSE IF Len(kept) < Len(r.catalog.books)
           THEN /\ catalogFile' = SavedFile(c, now)
                /\ now' = now + 1
                /\ last' = [Op("remove_book") EXCEPT !.path = fp, !.ret = TRUE,
                                                     !.loaded = r.catalog, !.result = c]
           ELSE /\ last' = [Op("remove_book") EXCEPT !.path = fp, !.ret = FALSE,
                                                     !.loaded = r.catalog,
                                                     !.result = r.catalog]
                /\ UNCHANGED <<catalogFile, now>>
        /\ UNCHANGED <<bookDirs, videoDirs, edits, procs, mtimes, indexFiles, files, roots>>

\* remove_video
RemoveVideo(id) ==
    LET r == LoadCatalog
        kept == WithoutVideo(r.catalog.videos, id)
        c == LibraryCatalog(r.catalog.books, kept, now)
    IN  /\ now <= MaxTime
        /\ IF ~r.ok
           THEN /\ last' = [Op("remove_video") EXCEPT !.vid = id, !.ok = FALSE]
                /\ UNCHANGED <<catalogFile, now>>
           ELSE IF Len(kept) < Len(r.catalog.videos)
           THEN /\ catalogFile' = SavedFile(c, now)
                /\ now' = now + 1
                /\ last' = [Op("remove_video") EXCEPT !.vid = id, !.ret = TRUE,
                                                      !.loaded = r.catalog, !.result = c]
           ELSE /\ last' = [Op("remove_video") EXCEPT !.vid = id, !.ret = FALSE,
                                                      !.loaded = r.catalog,
                                                      !.result = r.catalog]
                /\ UNCHANGED <<catalogFile, now>>
        /\ UNCHANGED <<bookDirs, videoDirs, edits, procs, mtimes, indexFiles, files, roots>>

(***************************************************************************)
(* Queries: the catalog is loaded, then searched (rl book list, rl video   *)
(* list, rl book get, rl video get).                                       *)
(***************************************************************************)
\* load_catalog, then search_books
SearchBooks(author, category, tag, title) ==
    LET r == LoadCatalog
    IN  /\ last' = [NoOp EXCEPT !.op = "search_books",
                      !.ok = r.ok, !.loaded = r.catalog,
                      !.query = <<author, category, tag, title>>,
                      !.found = IF r.ok
                                THEN search_books(r.catalog, author, category, tag, title)
                                ELSE <<>>]
        /\ UNCHANGED <<bookDirs, videoDirs, catalogFile, now, edits, procs, mtimes, indexFiles, files, roots>>

\* load_catalog, then search_videos
SearchVideos(channel, category, tag, title) ==
    LET r == LoadCatalog
    IN  /\ last' = [NoOp EXCEPT !.op = "search_videos",
                      !.ok = r.ok, !.loaded = r.catalog,
                      !.query = <<channel, category, tag, title>>,
                      !.found = IF r.ok
                                THEN search_videos(r.catalog, channel, category, tag, title)
                                ELSE <<>>]
        /\ UNCHANGED <<bookDirs, videoDirs, catalogFile, now, edits, procs, mtimes, indexFiles, files, roots>>

\* load_catalog, then find_book
FindBook(title) ==
    LET r == LoadCatalog
    IN  /\ last' = [NoOp EXCEPT !.op = "find_book",
                      !.ok = r.ok, !.loaded = r.catalog, !.query = <<title>>,
                      !.found = IF r.ok THEN find_book(r.catalog, title) ELSE <<>>]
        /\ UNCHANGED <<bookDirs, videoDirs, catalogFile, now, edits, procs, mtimes, indexFiles, files, roots>>

\* load_catalog, then find_video
FindVideo(video_id) ==
    LET r == LoadCatalog
    IN  /\ last' = [NoOp EXCEPT !.op = "find_video",
                      !.ok = r.ok, !.loaded = r.catalog, !.query = <<video_id>>,
                      !.found = IF r.ok THEN find_video(r.catalog, video_id) ELSE <<>>]
        /\ UNCHANGED <<bookDirs, videoDirs, catalogFile, now, edits, procs, mtimes, indexFiles, files, roots>>

(***************************************************************************)
(* IndexGenerator.generate_all_indices as the command line runs it.        *)
(***************************************************************************)
\* The book folders that get their index.md created (not rewritten) by a
\* generation, in the order generate_book_index is called
NewlyIndexed(c) ==
    LET fresh == SelectSeq(c.books, LAMBDA b : indexFiles.book[b.folder_path] = <<>>)
    IN  [i \in 1..Len(fresh) |-> fresh[i].folder_path]

\* load_catalog, then generate_all_indices on what it returned: the index
\* files written. Creating index.md in a book folder sets the folder's mtime;
\* two creations may fall in one tick of the file system's clock.
IndicesGenerated(sameTick) ==
    LET r == LoadCatalog
        raises == generate_all_indices_raises(r.catalog)
        fresh == IF raises THEN <<>> ELSE NewlyIndexed(r.catalog)
    IN  IF r.ok
        THEN /\ indexFiles' = generate_all_indices(r.catalog, indexFiles, now)
             /\ mtimes' = IF fresh = <<>> THEN mtimes
                          ELSE IF sameTick THEN Touched(mtimes, <<Elems(fresh)>>)
                          ELSE Touched(mtimes, [i \in 1..Len(fresh) |-> {fresh[i]}])
        ELSE UNCHANGED <<indexFiles, mtimes>>

\* the error the two calls end with ("" when they return)
IndicesError ==
    IF ~LoadCatalog.ok THEN "load"
    ELSE IF generate_all_indices_raises(LoadCatalog.catalog) THEN "TypeError"
    ELSE ""

\* rl catalog index / the end of rl book add, rl video fetch, rl catalog
\* rebuild: load_catalog, then generate_all_indices.
GenerateAllIndices(sameTick, tick) ==
    /\ tick => now <= MaxTime
    /\ IndicesGenerated(sameTick)
    /\ last' = [Op("generate_all_indices") EXCEPT
                   !.loaded = LoadCatalog.catalog, !.ok = IndicesError = "",
                   !.error = IndicesError]
    /\ now' = IF tick THEN now + 1 ELSE now
    /\ UNCHANGED <<bookDirs, videoDirs, catalogFile, edits, procs, roots, files>>

(***************************************************************************)
(* ResourceLibrary.initialize and exists on other paths.                   *)
(***************************************************************************)
\* ResourceLibrary.initialize: FileExistsError when the path exists, else the
\* root, an empty catalog saved by save_catalog, and the directory structure
Initialize(p) ==
    /\ now <= MaxTime
    /\ IF RootExists(p)
       THEN /\ last' = [Op("initialize") EXCEPT !.ok = FALSE, !.path = <<p>>,
                                                 !.error = "exists"]
            /\ UNCHANGED <<roots, now>>
       ELSE /\ roots' = [roots EXCEPT
                           ![p] = Root("dir", LibraryEntries, SavedFile(EmptyCatalog, now))]
            /\ now' = now + 1
            /\ last' = [Op("initialize") EXCEPT !.path = <<p>>]
    /\ UNCHANGED <<bookDirs, videoDirs, catalogFile, edits, procs, mtimes, indexFiles, files>>

\* ResourceLibrary(p).exists()
Exists(p) ==
    /\ last' = [Op("exists") EXCEPT !.path = <<p>>, !.ret = exists(p)]
    /\ UNCHANGED <<bookDirs, videoDirs, catalogFile, now, edits, procs, mtimes,
                   indexFiles, files, roots>>

(***************************************************************************)
(* utils/io.py: a manifest saved as YAML and loaded again. Python values   *)
(* are pairs (type, text); a YAML scalar is a pair (style, text).          *)
(***************************************************************************)
PyNone == <<"NoneType", "">>
PyStr(s) == <<"str", s>>
PyDatetime(iso) == <<"datetime", iso>>
PyOther(type, text) == <<type, text>>

\* The instants of the model, written as datetime.isoformat() writes them
Instants == {"2024-01-15T10:30:00", "2024-01-15T10:30:00+00:00"}

\* datetime.isoformat
isoformat(dt) == PyStr(dt[2])

\* What PyYAML's resolver takes a plain (unquoted) scalar for
resolve(text) ==
    CASE text \in {"", "null", "~"} -> "NoneType"
      [] text \in {"22", "123"}     -> "int"
      [] text \in {"true", "yes"}   -> "bool"
      [] text \in Instants          -> "datetime"
      [] OTHER                      -> "str"

\* a dump that writes every string plain
represent_plain(v) ==
    IF v = PyNone THEN <<"plain", "null">> ELSE <<"plain", v[2]>>

\* yaml.dump of a scalar: None as null, a string quoted when the resolver
\* would take its plain form for something else
represent(v) ==
    IF v = PyNone THEN <<"plain", "null">>
    ELSE IF v[1] = "str" /\ resolve(v[2]) # "str" THEN <<"quoted", v[2]>>
    ELSE <<"plain", v[2]>>

\* yaml.safe_load of a scalar
construct(y) ==
    IF y[1] = "quoted" THEN PyStr(y[2])
    ELSE IF resolve(y[2]) = "NoneType" THEN PyNone
    ELSE PyOther(resolve(y[2]), y[2])

\* yaml.dump / yaml.safe_load of a list or a dict of scalars
represent_all(c) == [k \in DOMAIN c |-> represent(c[k])]
construct_all(c) == [k \in DOMAIN c |-> construct(c[k])]

\* pydantic on a loaded value, by the type of the field
Invalid == <<"ValidationError", "">>
validate_str(v) == IF v[1] = "str" THEN v ELSE Invalid
validate_optional_str(v) == IF v = PyNone THEN PyNone ELSE validate_str(v)
validate_optional_datetime(v) ==
    IF v = PyNone THEN PyNone
    ELSE IF v[1] = "datetime" THEN v
    ELSE IF v[1] = "str" /\ v[2] \in Instants THEN PyDatetime(v[2])
    ELSE Invalid
validate_all_str(c) == [k \in DOMAIN c |-> validate_str(c[k])]

\* BookManifest objects: title, author, source_folder, categories, tags,
\* formats and isbn
BookManifestObjects ==
    [title : {PyStr("Alpha"), PyStr("123"), PyStr("null")},
     author : {PyStr("Jane Doe"), PyStr("true")},
     source_folder : {PyStr("doe-jane/alpha")},
     categories : {<<>>, <<PyStr("AI"), PyStr("22")>>},
     tags : {<<>>, <<PyStr("")>>},
     formats : {<<>>, [f \in {"markdown"} |-> PyStr("alpha.md")]},
     isbn : {PyNone, PyStr(""), PyStr("123"), PyStr("x")}]

\* VideoManifest objects: the required fields and the optional ones
VideoManifestObjects ==
    [videoId : {PyStr("X"), PyStr("123")},
     title : {PyStr("Alpha")},
     description : {PyStr(""), PyStr("x")},
     channelId : {PyStr("UC1")},
     channelTitle : {PyStr("Chan One")},
     tags : {<<>>, <<PyStr("yes")>>},
     url : {PyNone, PyStr("https://youtu.be/X")},
     categoryId : {PyNone, PyStr("22")},
     publishedAt : {PyNone} \cup { PyDatetime(i) : i \in Instants },
     defaultLanguage : {PyStr("en"), PyNone}]

\* BookManifest.to_yaml_dict
BookManifest_to_yaml_dict(m) ==
    [title |-> m.title, author |-> m.author, categories |-> m.categories,
     isbn |-> m.isbn, source_folder |-> m.source_folder, formats |-> m.formats,
     tags |-> m.tags]

\* VideoManifest.to_yaml_dict
VideoManifest_to_yaml_dict(m) ==
    [videoId |-> m.videoId, title |-> m.title, description |-> m.description,
     url |-> m.url, channelId |-> m.channelId, channelTitle |-> m.channelTitle,
     tags |-> m.tags, categoryId |-> m.categoryId,
     publishedAt |-> IF m.publishedAt # PyNone THEN isoformat(m.publishedAt) ELSE PyNone,
     defaultLanguage |-> m.defaultLanguage]

\* save_book_manifest: the manifest.yaml it writes
save_book_manifest(m) ==
    LET d == BookManifest_to_yaml_dict(m)
    IN  [title |-> represent(d.title), author |-> represent(d.author),
         categories |-> represent_all(d.categories), isbn |-> represent(d.isbn),
         source_folder |-> represent(d.source_folder),
         formats |-> represent_all(d.formats), tags |-> represent_all(d.tags)]

\* load_book_manifest: BookManifest(**load_yaml(...))
load_book_manifest(doc) ==
    [title |-> validate_str(construct(doc.title)),
     author |-> validate_str(construct(doc.author)),
     source_folder |-> validate_str(construct(doc.source_folder)),
     categories |-> validate_all_str(construct_all(doc.categories)),
     tags |-> validate_all_str(construct_all(doc.tags)),
     formats |-> validate_all_str(construct_all(doc.formats)),
     isbn |-> validate_optional_str(construct(doc.isbn))]

\* save_video_manifest: the manifest.yaml it writes
save_video_manifest(m) ==
    LET d == VideoManifest_to_yaml_dict(m)
    IN  [videoId |-> represent(d.videoId), title |-> represent(d.title),
         description |-> represent(d.description), url |-> represent(d.url),
         channelId |-> represent(d.channelId),
         channelTitle |-> represent(d.channelTitle),
         tags |-> represent_all(d.tags), categoryId |-> represent(d.categoryId),
         publishedAt |-> represent(d.publishedAt),
         defaultLanguage |-> represent(d.defaultLanguage)]

\* load_video_manifest: VideoManifest(**load_yaml(...))
load_video_manifest(doc) ==
    [videoId |-> validate_str(construct(doc.videoId)),
     title |-> validate_str(construct(doc.title)),
     description |-> validate_str(construct(doc.description)),
     channelId |-> validate_str(construct(doc.channelId)),
     channelTitle |-> validate_str(construct(doc.channelTitle)),
     tags |-> validate_all_str(construct_all(doc.tags)),
     url |-> validate_optional_str(construct(doc.url)),
     categoryId |-> validate_optional_str(construct(doc.categoryId)),
     publishedAt |-> validate_optional_datetime(construct(doc.publishedAt)),
     defaultLanguage |-> validate_optional_str(construct(doc.defaultLanguage))]

\* save_book_manifest into a folder, then load_book_manifest from it
SaveLoadBookManifest(m) ==
    /\ last' = [NoOp EXCEPT !.op = "save_load_book_manifest", !.input = <<m>>,
                            !.found = <<load_book_manifest(save_book_manifest(m))>>]
    /\ UNCHANGED <<bookDirs, videoDirs, catalogFile, now, edits, procs, mtimes,
                   indexFiles, files, roots>>

\* save_video_manifest into a folder, then load_video_manifest from it
SaveLoadVideoManifest(m) ==
    /\ last' = [NoOp EXCEPT !.op = "save_load_video_manifest", !.input = <<m>>,
                            !.found = <<load_video_manifest(save_video_manifest(m))>>]
    /\ UNCHANGED <<bookDirs, videoDirs, catalogFile, now, edits, procs, mtimes,
                   indexFiles, files, roots>>

(***************************************************************************)
(* Manual edits of the library's files (outside the program).              *)
(***************************************************************************)
Edited(name) ==
    /\ edits < MaxEdits
    /\ edits' = edits + 1
    /\ last' = [NoOp EXCEPT !.op = name]
    /\ UNCHANGED <<now, procs, roots>>

\* manifest.yaml rewritten by hand
EditBookManifest(fp, m) ==
    /\ Edited("edit_manifest")
    /\ BookFolderExists(fp)
    /\ bookDirs[fp] # Folder("ok", m)
    /\ bookDirs' = [bookDirs EXCEPT ![fp] = Folder("ok", m)]
    /\ UNCHANGED <<videoDirs, catalogFile, mtimes, indexFiles, files>>

EditVideoManifest(fp, m) ==
    /\ Edited("edit_manifest")
    /\ VideoFolderExists(fp)
    /\ videoDirs[fp] # Folder("ok", m)
    /\ videoDirs' = [videoDirs EXCEPT ![fp] = Folder("ok", m)]
    /\ UNCHANGED <<bookDirs, catalogFile, mtimes, indexFiles, files>>

\* manifest.yaml left with invalid YAML or without a required field
CorruptBookManifest(fp) ==
    /\ Edited("corrupt_manifest")
    /\ bookDirs[fp].st \in {"nomf", "ok"}
    /\ bookDirs' = [bookDirs EXCEPT ![fp] = Folder("bad", NoBookManifest)]
    /\ UNCHANGED <<videoDirs, catalogFile, mtimes, indexFiles, files>>

CorruptVideoManifest(fp) ==
    /\ Edited("corrupt_manifest")
    /\ videoDirs[fp].st \in {"nomf", "ok"}
    /\ videoDirs' = [videoDirs EXCEPT ![fp] = Folder("bad", NoVideoManifest)]
    /\ UNCHANGED <<bookDirs, catalogFile, mtimes, indexFiles, files>>

\* manifest.yaml deleted, the folder kept
DeleteBookManifest(fp) ==
    /\ Edited("delete_manifest")
    /\ bookDirs[fp].st \in {"bad", "ok"}
    /\ bookDirs' = [bookDirs EXCEPT ![fp] = Folder("nomf", NoBookManifest)]
    /\ mtimes' = Touched(mtimes, <<{fp}>>)
    /\ UNCHANGED <<videoDirs, catalogFile, indexFiles, files>>

DeleteVideoManifest(fp) ==
    /\ Edited("delete_manifest")
    /\ videoDirs[fp].st \in {"bad", "ok"}
    /\ videoDirs' = [videoDirs EXCEPT ![fp] = Folder("nomf", NoVideoManifest)]
    /\ UNCHANGED <<bookDirs, catalogFile, mtimes, indexFiles, files>>

\* the resource folder deleted or moved away
DeleteBookFolder(fp) ==
    /\ Edited("delete_folder")
    /\ BookFolderExists(fp)
    /\ bookDirs' = [bookDirs EXCEPT ![fp] = Folder("absent", NoBookManifest)]
    /\ mtimes' = SelectSeq([i \in 1..Len(mtimes) |-> mtimes[i] \ {fp}], LAMBDA g : g # {})
    /\ indexFiles' = [indexFiles EXCEPT !.book[fp] = <<>>]
    /\ files' = [files EXCEPT ![fp] = {}]
    /\ UNCHANGED <<videoDirs, catalogFile>>

DeleteVideoFolder(fp) ==
    /\ Edited("delete_folder")
    /\ VideoFolderExists(fp)
    /\ videoDirs' = [videoDirs EXCEPT ![fp] = Folder("absent", NoVideoManifest)]
    /\ indexFiles' = [indexFiles EXCEPT !.video[fp] = <<>>]
    /\ files' = [files EXCEPT ![fp] = {}]
    /\ UNCHANGED <<bookDirs, catalogFile, mtimes>>

\* catalog.yaml deleted
DeleteCatalogFile ==
    /\ Edited("delete_catalog")
    /\ catalogFile.st # "absent"
    /\ catalogFile' = AbsentFile
    /\ UNCHANGED <<bookDirs, videoDirs, mtimes, indexFiles, files>>

\* catalog.yaml left unparseable (a save killed half-way, a bad hand edit)
CorruptCatalogFile ==
    /\ Edited("corrupt_catalog")
    /\ catalogFile.st = "ok"
    /\ catalogFile' = CorruptFile
    /\ UNCHANGED <<bookDirs, videoDirs, mtimes, indexFiles, files>>

\* catalog.yaml cut by a save killed half-way where the rest still parses:
\* yaml.dump writes last_updated, books, videos, stats in this order, so the
\* file keeps a prefix of the books and nothing after them.
TruncateCatalogFile(k) ==
    /\ Edited("truncate_catalog")
    /\ catalogFile.st = "ok"
    /\ k \in 0..Len(catalogFile.books)
    /\ Len(catalogFile.books) + Len(catalogFile.videos) > k
    /\ catalogFile' = CatalogData("ok", catalogFile.last_updated,
                                  SubSeq(catalogFile.books, 1, k), <<>>,
                                  get_stats(EmptyCatalog))
    /\ UNCHANGED <<bookDirs, videoDirs, mtimes, indexFiles, files>>

(***************************************************************************)
(* Two invocations of add_book / add_video / rebuild_catalog running at    *)
(* the same time. Each is two steps: the load (or the scan) into its own   *)
(* memory, and the save of what it built from that.                        *)
(***************************************************************************)
\* add_book up to the return of load_catalog
BeginAddBook(p, b) ==
    LET r == LoadCatalog
    IN  /\ procs[p].pc = "idle"
        /\ procs' = [procs EXCEPT ![p] =
              IF r.ok
              THEN [Idle EXCEPT !.pc = "loaded", !.op = "add_book", !.book = b,
                                !.local = r.catalog, !.loadedAt = now]
              ELSE [Idle EXCEPT !.pc = "failed", !.op = "add_book", !.book = b]]
        /\ UNCHANGED <<bookDirs, videoDirs, catalogFile, now, edits, last, mtimes, indexFiles, files, roots>>

\* add_video up to the return of load_catalog
BeginAddVideo(p, v) ==
    LET r == LoadCatalog
    IN  /\ procs[p].pc = "idle"
        /\ procs' = [procs EXCEPT ![p] =
              IF r.ok
              THEN [Idle EXCEPT !.pc = "loaded", !.op = "add_video", !.video = v,
                                !.local = r.catalog, !.loadedAt = now]
              ELSE [Idle EXCEPT !.pc = "failed", !.op = "add_video", !.video = v]]
        /\ UNCHANGED <<bookDirs, videoDirs, catalogFile, now, edits, last, mtimes, indexFiles, files, roots>>

\* rebuild_catalog up to the construction of the catalog from the scan
BeginRebuild(p) ==
    /\ procs[p].pc = "idle"
    /\ \E bs \in Orderings(RebuiltBookFolders), vs \in Orderings(RebuiltVideoFolders) :
         procs' = [procs EXCEPT ![p] =
             [Idle EXCEPT !.pc = "loaded", !.op = "rebuild", !.loadedAt = now,
                          !.local = LibraryCatalog(
                              [i \in 1..Len(bs) |-> BookFromFolder(bs[i]).book],
                              [i \in 1..Len(vs) |-> VideoFromFolder(vs[i]).video],
                              now)]]
    /\ UNCHANGED <<bookDirs, videoDirs, catalogFile, now, edits, last, mtimes, indexFiles, files, roots>>

\* an invocation that loads again at the time it saves, as it would while
\* holding a lock on the catalog file
ProcCatalogReloaded(p) ==
    LET q == procs[p]
        c == LoadCatalog.catalog
    IN  IF q.op = "add_book"
        THEN LibraryCatalog(UpsertBook(c.books, q.book), c.videos, now)
        ELSE IF q.op = "add_video"
        THEN LibraryCatalog(c.books, UpsertVideo(c.videos, q.video), now)
        ELSE q.local

\* The catalog an invocation hands to save_catalog: built from what it loaded
\* (or scanned) itself, whatever the file holds by now.
ProcCatalog(p) ==
    LET q == procs[p]
    IN  IF q.op = "add_book"
        THEN LibraryCatalog(UpsertBook(q.local.books, q.book), q.local.videos, now)
        ELSE IF q.op = "add_video"
        THEN LibraryCatalog(q.local.books, UpsertVideo(q.local.videos, q.video), now)
        ELSE q.local

\* the save_catalog call that ends add_book / add_video / rebuild_catalog
FinishSave(p) ==
    /\ procs[p].pc = "loaded"
    /\ catalogFile' = SavedFile(ProcCatalog(p), now)
    /\ now' = now + 1
    /\ procs' = [procs EXCEPT ![p].pc = "done", ![p].savedAt = now]
    /\ UNCHANGED <<bookDirs, videoDirs, edits, last, mtimes, indexFiles, files, roots>>

(***************************************************************************)
(* The commands rl book add, rl book import-folder and rl video fetch,     *)
(* step by step: ingestion creates the folder, writes its files one by one *)
(* and the manifest; the command then updates the catalog and generates    *)
(* the indices. A write may fail (disk full, permission): the exception    *)
(* ends the command.                                                       *)
(***************************************************************************)
Commands == {"book add", "book import-folder", "video fetch"}

\* add_book_from_folder: the manifest also names the summaries found in the
\* source folder
IngestedBookFolderManifest(in) ==
    [IngestedBookManifest(in) EXCEPT !.summaries = {"shortform"}]

\* the command of an invocation is running
Running(p) == procs[p].pc \in {"mkdir", "ingested", "saved"}

\* the folder an invocation ingests into, and the files its manifest names
Destination(p) ==
    IF procs[p].op = "video fetch" THEN procs[p].video.folder_path
    ELSE procs[p].book.folder_path

DestinationFiles(p) ==
    IF procs[p].op = "video fetch" THEN VideoFiles(procs[p].video.manifest)
    ELSE BookFiles(procs[p].book.manifest)

\* The file ingestion writes next: the format files (the transcript and the
\* url file of a video) before the summaries
NextFile(p) ==
    LET missing == DestinationFiles(p) \ files[Destination(p)]
        first == { f \in missing : f[1] # "summaries" }
    IN  IF first # {} THEN CHOOSE f \in first : TRUE ELSE CHOOSE f \in missing : TRUE

\* an invocation at the start of its command; `before` keeps the catalog file
\* and the index files the command found
Started == [Idle EXCEPT !.before = <<catalogFile, indexFiles>>]

\* an ingestion that also registers the resource in the catalog file
SaveManifestAndCatalog(p) ==
    LET r == LoadCatalog
        q == procs[p]
        c == IF q.op = "video fetch"
             THEN LibraryCatalog(r.catalog.books, UpsertVideo(r.catalog.videos, q.video), now)
             ELSE LibraryCatalog(UpsertBook(r.catalog.books, q.book), r.catalog.videos, now)
    IN  /\ q.pc = "mkdir"
        /\ DestinationFiles(p) \subseteq files[Destination(p)]
        /\ IF q.op = "video fetch"
           THEN /\ videoDirs' = [videoDirs EXCEPT
                                   ![Destination(p)] = Folder("ok", q.video.manifest)]
                /\ UNCHANGED <<bookDirs, mtimes>>
           ELSE /\ bookDirs' = [bookDirs EXCEPT
                                  ![Destination(p)] = Folder("ok", q.book.manifest)]
                /\ mtimes' = Touched(mtimes, <<{Destination(p)}>>)
                /\ UNCHANGED videoDirs
        /\ catalogFile' = IF r.ok THEN SavedFile(c, now) ELSE catalogFile
        /\ procs' = [procs EXCEPT ![p].pc = "ingested"]
        /\ UNCHANGED <<now, edits, last, indexFiles, roots, files>>

\* add_book / add_book_from_folder up to book_folder.mkdir: ValueError when
\* title or author is not determined or when the folder exists
BookCommandStart(p, cmd, in) ==
    LET d == Determined(in)
        fp == IngestedBookFolder(d)
        m == IF cmd = "book add" THEN IngestedBookManifest(d)
             ELSE IngestedBookFolderManifest(d)
    IN  /\ ~Running(p)
        /\ cmd \in {"book add", "book import-folder"}
        /\ IF d.title = "" \/ d.author = ""
           THEN /\ procs' = [procs EXCEPT ![p] =
                      [Started EXCEPT !.pc = "failed", !.op = cmd, !.error = "validation"]]
                /\ UNCHANGED <<bookDirs, mtimes>>
           ELSE IF BookFolderExists(fp)
           THEN /\ procs' = [procs EXCEPT ![p] =
                      [Started EXCEPT !.pc = "failed", !.op = cmd, !.book = Book(fp, m),
                                   !.error = "exists"]]
                /\ UNCHANGED <<bookDirs, mtimes>>
           ELSE /\ bookDirs' = [bookDirs EXCEPT ![fp] = Folder("nomf", NoBookManifest)]
                /\ mtimes' = Touched(mtimes, <<{fp}>>)
                /\ procs' = [procs EXCEPT ![p] =
                      [Started EXCEPT !.pc = "mkdir", !.op = cmd, !.book = Book(fp, m)]]
        /\ UNCHANGED <<videoDirs, catalogFile, now, edits, last, indexFiles, roots, files>>

\* add_single_video / add_video up to video_folder.mkdir: ValueError when a
\* required field is missing or when the folder exists
VideoCommandStart(p, in) ==
    LET fp == IngestedVideoFolder(in)
        m == IngestedVideoManifest(in)
    IN  /\ ~Running(p)
        /\ IF in.videoId = "" \/ in.title = "" \/ in.channelId = "" \/ in.channelTitle = ""
           THEN /\ procs' = [procs EXCEPT ![p] =
                      [Started EXCEPT !.pc = "failed", !.op = "video fetch",
                                   !.error = "validation"]]
                /\ UNCHANGED videoDirs
           ELSE IF VideoFolderExists(fp)
           THEN /\ procs' = [procs EXCEPT ![p] =
                      [Started EXCEPT !.pc = "failed", !.op = "video fetch",
                                   !.video = Video(fp, m), !.error = "exists"]]
                /\ UNCHANGED videoDirs
           ELSE /\ videoDirs' = [videoDirs EXCEPT ![fp] = Folder("nomf", NoVideoManifest)]
                /\ procs' = [procs EXCEPT ![p] =
                      [Started EXCEPT !.pc = "mkdir", !.op = "video fetch",
                                   !.video = Video(fp, m)]]
        /\ UNCHANGED <<bookDirs, catalogFile, now, edits, last, mtimes, indexFiles, roots, files>>

\* shutil.copy / write_text of one file into the new folder
WriteFile(p) ==
    /\ procs[p].pc = "mkdir"
    /\ DestinationFiles(p) \ files[Destination(p)] # {}
    /\ files' = [files EXCEPT ![Destination(p)] = @ \cup {NextFile(p)}]
    /\ mtimes' = IF procs[p].op = "video fetch" THEN mtimes
                 ELSE Touched(mtimes, <<{Destination(p)}>>)
    /\ UNCHANGED <<bookDirs, videoDirs, catalogFile, now, edits, last, procs, indexFiles, roots>>

\* an ingestion that writes the manifest as soon as the folder is made
SaveManifestFirst(p) ==
    /\ procs[p].pc = "mkdir"
    /\ IF procs[p].op = "video fetch"
       THEN /\ videoDirs' = [videoDirs EXCEPT
                               ![Destination(p)] = Folder("ok", procs[p].video.manifest)]
            /\ UNCHANGED <<bookDirs, mtimes>>
       ELSE /\ bookDirs' = [bookDirs EXCEPT
                              ![Destination(p)] = Folder("ok", procs[p].book.manifest)]
            /\ mtimes' = Touched(mtimes, <<{Destination(p)}>>)
            /\ UNCHANGED videoDirs
    /\ procs' = [procs EXCEPT ![p].pc = "ingested"]
    /\ UNCHANGED <<catalogFile, now, edits, last, indexFiles, roots, files>>

\* save_book_manifest / save_video_manifest, after every file was written;
\* ingestion returns the resource
SaveManifest(p) ==
    /\ procs[p].pc = "mkdir"
    /\ DestinationFiles(p) \subseteq files[Destination(p)]
    /\ IF procs[p].op = "video fetch"
       THEN /\ videoDirs' = [videoDirs EXCEPT
                               ![Destination(p)] = Folder("ok", procs[p].video.manifest)]
            /\ UNCHANGED <<bookDirs, mtimes>>
       ELSE /\ bookDirs' = [bookDirs EXCEPT
                              ![Destination(p)] = Folder("ok", procs[p].book.manifest)]
            /\ mtimes' = Touched(mtimes, <<{Destination(p)}>>)
            /\ UNCHANGED videoDirs
    /\ procs' = [procs EXCEPT ![p].pc = "ingested"]
    /\ UNCHANGED <<catalogFile, now, edits, last, indexFiles, roots, files>>

\* a copy or a write raises OSError: ingestion has no handler and no cleanup,
\* the exception ends the command with the folder as it is
WriteFails(p) ==
    /\ procs[p].pc = "mkdir"
    /\ procs' = [procs EXCEPT ![p].pc = "failed", ![p].error = "io"]
    /\ UNCHANGED <<bookDirs, videoDirs, catalogFile, now, edits, last, mtimes, indexFiles,
                   roots, files>>

\* catalog_mgr.add_book(book) / add_video(video) with the resource ingestion
\* returned
CommandAdd(p) ==
    LET r == LoadCatalog
        q == procs[p]
        c == IF q.op = "video fetch"
             THEN LibraryCatalog(r.catalog.books, UpsertVideo(r.catalog.videos, q.video), now)
             ELSE LibraryCatalog(UpsertBook(r.catalog.books, q.book), r.catalog.videos, now)
    IN  /\ q.pc = "ingested"
        /\ now <= MaxTime
        /\ IF r.ok
           THEN /\ catalogFile' = SavedFile(c, now)
                /\ now' = now + 1
                /\ procs' = [procs EXCEPT ![p].pc = "saved", ![p].loadedAt = now,
                                          ![p].savedAt = now]
           ELSE /\ procs' = [procs EXCEPT ![p].pc = "failed", ![p].error = "load"]
                /\ UNCHANGED <<catalogFile, now>>
        /\ UNCHANGED <<bookDirs, videoDirs, edits, last, mtimes, indexFiles, roots, files>>

\* catalog = catalog_mgr.load_catalog(); index_gen.generate_all_indices(catalog)
CommandGenerate(p, sameTick) ==
    /\ procs[p].pc = "saved"
    /\ IndicesGenerated(sameTick)
    /\ procs' = [procs EXCEPT ![p].pc = IF IndicesError = "" THEN "done" ELSE "failed",
                              ![p].error = IndicesError]
    /\ UNCHANGED <<bookDirs, videoDirs, catalogFile, now, edits, last, roots, files>>

(***************************************************************************)
(* Specifications.                                                         *)
(***************************************************************************)
\* The resources as their folders hold them: what ingestion returned, what a
\* load or a scan of the folder gives.
BooksOfFolders == { BookFromFolder(fp).book : fp \in { f \in DOMAIN bookDirs : BookFromFolder(f).ok } }
VideosOfFolders == { VideoFromFolder(fp).video : fp \in { f \in DOMAIN videoDirs : VideoFromFolder(f).ok } }

\* Any Book / Video object a caller of the CatalogManager can hold
AnyBooks == { Book(fp, m) : fp \in BookFolders, m \in BookManifests }
AnyVideos == { Video(fp, m) : fp \in VideoFolders, m \in VideoManifests }

\* The video fetched once in the library of both kinds
FirstVideoInputs == { in \in VideoInputs : in.title = "Alpha" }

\* A library of books and videos: ingestion, the catalog operations on the
\* resources of the folders, manual edits.
Next ==
    \/ \E in \in BookInputs : BookIngest(in)
    \/ \E in \in FirstVideoInputs : VideoIngest(in)
    \/ Load
    \/ Rebuild
    \/ \E b \in BooksOfFolders : AddBook(b)
    \/ \E v \in VideosOfFolders : AddVideo(v)
    \/ \E fp \in BookFolders, m \in BookManifests : EditBookManifest(fp, m)
    \/ \E fp \in VideoFolders, m \in VideoManifests : EditVideoManifest(fp, m)
    \/ \E fp \in BookFolders : CorruptBookManifest(fp)
    \/ \E fp \in VideoFolders : CorruptVideoManifest(fp)
    \/ \E fp \in BookFolders : DeleteBookManifest(fp)
    \/ \E fp \in VideoFolders : DeleteVideoManifest(fp)
    \/ \E fp \in BookFolders : DeleteBookFolder(fp)
    \/ \E fp \in VideoFolders : DeleteVideoFolder(fp)
    \/ DeleteCatalogFile
    \/ CorruptCatalogFile
    \/ \E k \in 0..Cardinality(BookFolders) : TruncateCatalogFile(k)

Spec == Init /\ [][Next]_vars

\* The book side of the CatalogManager, called with any Book object
NextBooks ==
    \/ \E in \in BookInputs : BookIngest(in)
    \/ Load
    \/ Rebuild
    \/ \E b \in AnyBooks : AddBook(b)
    \/ \E fp \in BookFolders : RemoveBook(fp)
    \/ \E fp \in BookFolders, m \in BookManifests : EditBookManifest(fp, m)
    \/ \E fp \in BookFolders : CorruptBookManifest(fp)
    \/ \E fp \in BookFolders : DeleteBookManifest(fp)
    \/ \E fp \in BookFolders : DeleteBookFolder(fp)
    \/ DeleteCatalogFile
    \/ CorruptCatalogFile

SpecBooks == Init /\ [][NextBooks]_vars

\* The video side of the CatalogManager, called with any Video object
NextVideos ==
    \/ \E in \in VideoInputs : VideoIngest(in)
    \/ Load
    \/ Rebuild
    \/ \E v \in AnyVideos : AddVideo(v)
    \/ \E id \in VideoIds : RemoveVideo(id)
    \/ \E fp \in VideoFolders, m \in VideoManifests : EditVideoManifest(fp, m)
    \/ \E fp \in VideoFolders : CorruptVideoManifest(fp)
    \/ \E fp \in VideoFolders : DeleteVideoManifest(fp)
    \/ \E fp \in VideoFolders : DeleteVideoFolder(fp)
    \/ DeleteCatalogFile
    \/ CorruptCatalogFile

SpecVideos == Init /\ [][NextVideos]_vars

\* Two concurrent invocations on a library that ingestion keeps filling
NextRace ==
    \/ \E in \in BookInputs : BookIngest(in)
    \/ \E in \in VideoInputs : VideoIngest(in)
    \/ \E p \in Procs, b \in BooksOfFolders : BeginAddBook(p, b)
    \/ \E p \in Procs, v \in VideosOfFolders : BeginAddVideo(p, v)
    \/ \E p \in Procs : BeginRebuild(p)
    \/ \E p \in Procs : FinishSave(p)

SpecRace == Init /\ [][NextRace]_vars

\* The filter values of the queries: None, the empty string, and strings
\* that differ in case from the fields they are found in
AuthorFilters == {Omitted, Given(""), Given("jane"), Given("SMITH")}
CategoryFilters == {Omitted, Given(""), Given("a")}
TagFilters == {Omitted, Given("x")}
BookTitleFilters == {Omitted, Given("lp")}
ChannelFilters == {Omitted, Given("one")}
VideoTitleFilters == {Omitted, Given("ALPHA")}
FindTitles == {"ALPHA", "Beta", "lp"}
FindVideoIds == {"X", "x"}

\* A library as ingestion, a manual rewrite of a manifest and a rebuild leave
\* it: any folder absent or holding a manifest, at most one of them not the
\* one ingestion wrote, the catalog listing the resources of the folders in
\* some order of the scan
InitSearch ==
    /\ bookDirs \in [BookFolders ->
          {Folder("absent", NoBookManifest)} \cup {Folder("ok", m) : m \in BookManifests}]
    /\ videoDirs \in [VideoFolders ->
          {Folder("absent", NoVideoManifest)} \cup {Folder("ok", m) : m \in VideoManifests}]
    /\ Cardinality({ in \in BookInputs :
                        bookDirs[IngestedBookFolder(in)].st = "ok" /\
                        bookDirs[IngestedBookFolder(in)].m # IngestedBookManifest(in) })
         + Cardinality({ in \in VideoInputs :
                        videoDirs[IngestedVideoFolder(in)].st = "ok" /\
                        videoDirs[IngestedVideoFolder(in)].m # IngestedVideoManifest(in) })
         <= 1
    /\ \E bs \in Orderings(RebuiltBookFolders), vs \in Orderings(RebuiltVideoFolders) :
          catalogFile = SavedFile(
              LibraryCatalog([i \in 1..Len(bs) |-> BookFromFolder(bs[i]).book],
                             [i \in 1..Len(vs) |-> VideoFromFolder(vs[i]).video], 0), 0)
    /\ now = 1
    /\ edits = 0
    /\ last = NoOp
    /\ procs = [p \in Procs |-> Idle]
    /\ \E ms \in Orderings({ fp \in BookFolders : BookFolderExists(fp) }) :
          mtimes = [i \in 1..Len(ms) |-> {ms[i]}]
    /\ indexFiles = NoIndexFiles
    /\ roots = [p \in RootPaths |-> NoRoot]
    /\ files = FilesAsIngested

\* The queries of the command line on such a library
NextSearch ==
    \/ \E a \in AuthorFilters, c \in CategoryFilters, t \in TagFilters,
          ti \in BookTitleFilters : SearchBooks(a, c, t, ti)
    \/ \E ch \in ChannelFilters, c \in CategoryFilters, t \in TagFilters,
          ti \in VideoTitleFilters : SearchVideos(ch, c, t, ti)
    \/ \E title \in FindTitles : FindBook(title)
    \/ \E id \in FindVideoIds : FindVideo(id)

SpecSearch == InitSearch /\ [][NextSearch]_vars

\* Paths no library was ever initialized at: nothing there, a plain file, an
\* empty directory, a directory holding something else
NeverInitialized ==
    { NoRoot, Root("file", {}, AbsentFile), Root("dir", {}, AbsentFile),
      Root("dir", {"books", "notes.txt"}, AbsentFile) }

InitPaths ==
    /\ bookDirs = [fp \in BookFolders |-> Folder("absent", NoBookManifest)]
    /\ videoDirs = [fp \in VideoFolders |-> Folder("absent", NoVideoManifest)]
    /\ catalogFile = SavedFile(EmptyCatalog, 0)
    /\ now = 1
    /\ edits = 0
    /\ last = NoOp
    /\ procs = [p \in Procs |-> Idle]
    /\ mtimes = <<>>
    /\ indexFiles = NoIndexFiles
    /\ roots \in [RootPaths -> NeverInitialized]
    /\ files = FilesAsIngested

\* rl init and the existence check of the other commands, on any path
NextPaths ==
    \/ \E p \in RootPaths : Initialize(p)
    \/ \E p \in RootPaths : Exists(p)

SpecPaths == InitPaths /\ [][NextPaths]_vars

\* A library of books and videos whose catalog entries are added and removed,
\* some of its folders deleted by hand
NextRemove ==
    \/ \E in \in BookInputs : BookIngest(in)
    \/ \E in \in FirstVideoInputs : VideoIngest(in)
    \/ \E b \in BooksOfFolders : AddBook(b)
    \/ \E v \in VideosOfFolders : AddVideo(v)
    \/ \E fp \in BookFolders : RemoveBook(fp)
    \/ \E id \in VideoIds : RemoveVideo(id)
    \/ \E fp \in BookFolders : DeleteBookFolder(fp)
    \/ \E fp \in VideoFolders : DeleteVideoFolder(fp)

SpecRemove == Init /\ [][NextRemove]_vars

\* Manifests written to a folder and read back
NextManifest ==
    \/ \E m \in BookManifestObjects : SaveLoadBookManifest(m)
    \/ \E m \in VideoManifestObjects : SaveLoadVideoManifest(m)

SpecManifest == Init /\ [][NextManifest]_vars

\* Ingestion with every kind of arguments, into folders that may have been
\* edited by hand since they were created
NextIngest ==
    \/ \E in \in BookInputs \cup BookInputsFromFile : BookIngest(in)
    \/ \E in \in VideoInputs \cup IncompleteVideoInputs : VideoIngest(in)
    \/ \E fp \in BookFolders, m \in BookManifests : EditBookManifest(fp, m)
    \/ \E fp \in VideoFolders, m \in VideoManifests : EditVideoManifest(fp, m)
    \/ \E fp \in BookFolders : DeleteBookManifest(fp)
    \/ \E fp \in VideoFolders : DeleteVideoManifest(fp)

SpecIngest == Init /\ [][NextIngest]_vars

\* A library whose resources are ingested and catalogued through the Python
\* API, its index files generated now and then
NextIndex ==
    \/ \E in \in BookInputs : BookIngest(in)
    \/ \E in \in FirstVideoInputs : VideoIngest(in)
    \/ Rebuild
    \/ \E b \in BooksOfFolders : AddBook(b)
    \/ \E v \in VideosOfFolders : AddVideo(v)
    \/ \E sameTick \in BOOLEAN, tick \in BOOLEAN : GenerateAllIndices(sameTick, tick)

SpecIndex == Init /\ [][NextIndex]_vars

\* Folders with a manifest.yaml where the scan of rebuild_catalog does not
\* look: under the reserved _index, in the author folder itself, and one
\* level below a resource folder
OddBookPaths ==
    { <<"books", "_index", "alpha">>, <<"books", "doe-jane">>,
      <<"books", "doe-jane", "alpha", "part-1">> }
OddVideoPaths ==
    { <<"videos", "_index", "X__alpha">>,
      <<"videos", "chan-one__UC1", "X__alpha", "source">> }

\* the folder a folder lies in
Parent(fp) == SubSeq(fp, 1, Len(fp) - 1)

\* A library whose folders were filled by ingestion and by hand: any folder
\* absent, without manifest, with a manifest that fails to load, or with one
\* that loads; a folder that is there lies in a folder that is there
InitScan ==
    /\ bookDirs \in [BookFolders \cup OddBookPaths ->
          { Folder("absent", NoBookManifest), Folder("nomf", NoBookManifest),
            Folder("bad", NoBookManifest),
            Folder("ok", BookManifest("Alpha", "Jane Doe", <<"AI">>, <<>>, {"markdown"}, {})) }]
    /\ videoDirs \in [VideoFolders \cup OddVideoPaths ->
          { Folder("absent", NoVideoManifest), Folder("bad", NoVideoManifest),
            Folder("ok", VideoManifest("X", "Alpha", "UC1", "Chan One", <<>>, <<"AI">>, 7, {})) }]
    /\ \A fp \in DOMAIN bookDirs :
          (Parent(fp) \in DOMAIN bookDirs /\ bookDirs[fp].st # "absent")
              => bookDirs[Parent(fp)].st # "absent"
    /\ \A fp \in OddBookPaths : bookDirs[fp].st # "bad"
    /\ \A fp \in DOMAIN videoDirs :
          (Parent(fp) \in DOMAIN videoDirs /\ videoDirs[fp].st # "absent")
              => videoDirs[Parent(fp)].st # "absent"
    /\ \A fp \in OddVideoPaths : videoDirs[fp].st # "bad"
    /\ catalogFile = SavedFile(EmptyCatalog, 0)
    /\ now = 1
    /\ edits = 0
    /\ last = NoOp
    /\ procs = [p \in Procs |-> Idle]
    /\ mtimes = <<>>
    /\ indexFiles = NoIndexFiles
    /\ roots = [p \in RootPaths |-> NoRoot]
    /\ files = FilesAsIngested

\* rl catalog rebuild on such a library
NextScan ==
    \/ Rebuild

SpecScan == InitScan /\ [][NextScan]_vars

\* A library whose catalog entries come and go through the Python API, its
\* index files generated after any of that
NextReindex ==
    \/ \E in \in BookInputs : BookIngest(in)
    \/ \E in \in FirstVideoInputs : VideoIngest(in)
    \/ \E b \in BooksOfFolders : AddBook(b)
    \/ \E v \in VideosOfFolders : AddVideo(v)
    \/ \E fp \in BookFolders : RemoveBook(fp)
    \/ \E id \in VideoIds : RemoveVideo(id)
    \/ \E sameTick \in BOOLEAN, tick \in BOOLEAN : GenerateAllIndices(sameTick, tick)

SpecReindex == Init /\ [][NextReindex]_vars

\* A second video of the same channel, handed to add_video with metadata that
\* holds no publishedAt
VideoInputsUndated ==
    { [videoId |-> "Y", title |-> "Beta", channelId |-> "UC1", channelTitle |-> "Chan One",
       categories |-> <<>>, publishedAt |-> None] }

\* The book ingested in the library of the two videos
FirstBookInputs == { in \in BookInputs : in.title = "Alpha" }

\* A new library with room for the folder of the second video
InitChannel ==
    /\ bookDirs = [fp \in BookFolders |-> Folder("absent", NoBookManifest)]
    /\ videoDirs = [fp \in VideoFolders \cup { IngestedVideoFolder(in) : in \in VideoInputsUndated }
                       |-> Folder("absent", NoVideoManifest)]
    /\ catalogFile = SavedFile(EmptyCatalog, 0)
    /\ now = 1
    /\ edits = 0
    /\ last = NoOp
    /\ procs = [p \in Procs |-> Idle]
    /\ mtimes = <<>>
    /\ indexFiles = [NoIndexFiles EXCEPT !.video = [fp \in DOMAIN videoDirs |-> <<>>]]
    /\ roots = [p \in RootPaths |-> NoRoot]
    /\ files = FilesAsIngested

\* Two videos of one channel and a book, ingested, added to the catalog and
\* indexed
NextChannel ==
    \/ \E in \in FirstBookInputs : BookIngest(in)
    \/ \E in \in FirstVideoInputs \cup VideoInputsUndated : VideoIngest(in)
    \/ \E b \in BooksOfFolders : AddBook(b)
    \/ \E v \in VideosOfFolders : AddVideo(v)
    \/ \E sameTick \in BOOLEAN, tick \in BOOLEAN : GenerateAllIndices(sameTick, tick)

SpecChannel == InitChannel /\ [][NextChannel]_vars

\* The arguments of the commands: books whose title and author are given, one
\* whose title cannot be determined, a video, one whose metadata lacks a field
CommandBookInputs ==
    BookInputs \cup { in \in BookInputsFromFile : Determined(in).title = "" }
CommandVideoInputs ==
    FirstVideoInputs \cup { in \in IncompleteVideoInputs : in.title = "" }

\* One terminal running the commands one after the other
NextFlow ==
    \/ \E cmd \in Commands, in \in CommandBookInputs : BookCommandStart("p1", cmd, in)
    \/ \E in \in CommandVideoInputs : VideoCommandStart("p1", in)
    \/ WriteFile("p1")
    \/ SaveManifest("p1")
    \/ WriteFails("p1")
    \/ CommandAdd("p1")
    \/ \E sameTick \in BOOLEAN : CommandGenerate("p1", sameTick)

SpecFlow == Init /\ [][NextFlow]_vars

\* The same, with rl catalog rebuild run from another terminal at any moment
NextCommand ==
    \/ \E cmd \in Commands, in \in CommandBookInputs : BookCommandStart("p1", cmd, in)
    \/ \E in \in CommandVideoInputs : VideoCommandStart("p1", in)
    \/ WriteFile("p1")
    \/ SaveManifest("p1")
    \/ WriteFails("p1")
    \/ CommandAdd("p1")
    \/ \E sameTick \in BOOLEAN : CommandGenerate("p1", sameTick)
    \/ Rebuild

SpecCommand == Init /\ [][NextCommand]_vars

\* A library whose manifests get broken or deleted by hand while its catalog
\* is read and updated
NextBroken ==
    \/ \E in \in BookInputs : BookIngest(in)
    \/ \E in \in FirstVideoInputs : VideoIngest(in)
    \/ Load
    \/ Rebuild
    \/ \E b \in BooksOfFolders : AddBook(b)
    \/ \E v \in VideosOfFolders : AddVideo(v)
    \/ \E fp \in BookFolders : RemoveBook(fp)
    \/ \E id \in VideoIds : RemoveVideo(id)
    \/ \E fp \in BookFolders : CorruptBookManifest(fp)
    \/ \E fp \in VideoFolders : CorruptVideoManifest(fp)
    \/ \E fp \in BookFolders : DeleteBookManifest(fp)
    \/ \E fp \in VideoFolders : DeleteVideoManifest(fp)

SpecBroken == Init /\ [][NextBroken]_vars

\* Two books and two videos ingested and cataloged by a rebuild or added one
\* by one, some of their folders deleted by hand in between
NextFrame ==
    \/ \E in \in BookInputs : BookIngest(in)
    \/ \E in \in FirstVideoInputs \cup VideoInputsUndated : VideoIngest(in)
    \/ Rebuild
    \/ \E b \in BooksOfFolders : AddBook(b)
    \/ \E v \in VideosOfFolders : AddVideo(v)
    \/ \E fp \in DOMAIN bookDirs : DeleteBookFolder(fp)
    \/ \E fp \in DOMAIN videoDirs : DeleteVideoFolder(fp)

SpecFrame == InitChannel /\ [][NextFrame]_vars

(***************************************************************************)
(* Properties of the catalog operations.                                   *)
(***************************************************************************)
BookPaths(books) == { books[i].folder_path : i \in 1..Len(books) }
VideoPaths(videos) == { videos[i].folder_path : i \in 1..Len(videos) }

\* C1: add_book(b) replaces in place the entry of the loaded catalog that
\* has b's folder_path, leaving the number of books as it was; when the loaded
\* catalog has no such entry, the saved catalog has exactly one book more (b,
\* after the loaded ones).
C1_AddBookUpserts ==
    (last.op = "add_book" /\ last.ok) =>
        LET L == last.loaded.books
            S == catalogFile.books
            b == last.book
            hits == { i \in 1..Len(L) : L[i].folder_path = b.folder_path }
        IN  /\ catalogFile.st = "ok"
            /\ Len(last.result.books) = Len(S)
            /\ IF hits # {}
               THEN /\ Len(S) = Len(L)
                    /\ \A i \in hits : S[i] = BookEntry(b) /\ last.result.books[i] = b
                    /\ \A i \in (1..Len(L)) \ hits : S[i] = BookEntry(L[i])
               ELSE /\ Len(S) = Len(L) + 1
                    /\ S[Len(S)] = BookEntry(b)
                    /\ \A i \in 1..Len(L) : S[i] = BookEntry(L[i])

\* add_book has replaced, in a catalog of two books, the entry of b's folder
\* by a b that differs from it
C1_Witness ==
    /\ last.op = "add_book" /\ last.ok
    /\ Len(last.loaded.books) = 2
    /\ \E i \in 1..2 : /\ last.loaded.books[i].folder_path = last.book.folder_path
                        /\ last.loaded.books[i] # last.book
                        /\ catalogFile.books[i] = BookEntry(last.book)

\* C2: after add_video(v1) then add_video(v2), v1 and v2 being the videos
\* of two folders of the library with the same video_id and different titles,
\* the catalog as saved, and as the next load returns it, has exactly one
\* video of that video_id, and it bears v2's title.
C2_AddVideoTwiceKeepsOne ==
    [][ ( /\ last.op = "add_video" /\ last.ok
          /\ last'.op = "add_video" /\ last'.ok
          /\ last'.video.manifest.videoId = last.video.manifest.videoId
          /\ last'.video.manifest.title # last.video.manifest.title
          /\ last.video \in VideosOfFolders
          /\ last'.video \in VideosOfFolders )
        => LET id == last'.video.manifest.videoId
               S == catalogFile'.videos
               R == LoadCatalog'
               saved == { i \in 1..Len(S) : S[i].video_id = id }
               loaded == { i \in 1..Len(R.catalog.videos) :
                             R.catalog.videos[i].manifest.videoId = id }
           IN  /\ Cardinality(saved) = 1
               /\ \A i \in saved : S[i].title = last'.video.manifest.title
               /\ R.ok
               /\ Cardinality(loaded) = 1
               /\ \A i \in loaded :
                     R.catalog.videos[i].manifest.title = last'.video.manifest.title
      ]_vars

\* C3: no catalog that an operation saves or returns has two books of the
\* same folder_path or two videos of the same video_id.
C3_NoDuplicateKeys ==
    /\ catalogFile.st = "ok" =>
          /\ \A i, j \in 1..Len(catalogFile.books) :
                catalogFile.books[i].folder_path = catalogFile.books[j].folder_path => i = j
          /\ \A i, j \in 1..Len(catalogFile.videos) :
                catalogFile.videos[i].video_id = catalogFile.videos[j].video_id => i = j
    /\ \A i, j \in 1..Len(last.result.books) :
          last.result.books[i].folder_path = last.result.books[j].folder_path => i = j
    /\ \A i, j \in 1..Len(last.result.videos) :
          last.result.videos[i].manifest.videoId = last.result.videos[j].manifest.videoId
            => i = j

\* C4: remove_book(path), path being in the loaded catalog, returns True
\* and saves a catalog without an entry of that path; remove_book changes no
\* folder and no file of a resource; a rebuild that follows has the book of
\* that path again, its manifest being still there.
C4_RemoveBookKeepsFolder ==
    [][ /\ last'.op = "remove_book" =>
            /\ bookDirs' = bookDirs /\ videoDirs' = videoDirs
            /\ (last'.ok /\ last'.path \in BookPaths(last'.loaded.books)) =>
                  /\ last'.ret
                  /\ catalogFile'.st = "ok"
                  /\ \A i \in 1..Len(catalogFile'.books) :
                        catalogFile'.books[i].folder_path # last'.path
                  /\ last'.path \notin BookPaths(last'.result.books)
        /\ ( /\ last.op = "remove_book" /\ last.ret
             /\ last'.op = "rebuild"
             /\ bookDirs'[last.path].st = "ok" ) =>
               /\ last.path \in BookPaths(last'.result.books)
               /\ \E i \in 1..Len(catalogFile'.books) :
                     catalogFile'.books[i] =
                        BookEntry(Book(last.path, bookDirs'[last.path].m))
      ]_vars

\* a rebuild right after a remove_book that returned True has put the book
\* of the removed path, whose folder never changed, back into the catalog
C4_Witness ==
    /\ last.op = "rebuild"
    /\ last.prev.op = "remove_book" /\ last.prev.ret
    /\ bookDirs[last.prev.path].st = "ok"
    /\ \E i \in 1..Len(catalogFile.books) :
          catalogFile.books[i].folder_path = last.prev.path

\* The folders whose manifest loads, and those whose manifest is there but
\* fails to parse or validate
ValidBookFolders == { fp \in BookFolders : bookDirs[fp].st = "ok" }
ValidVideoFolders == { fp \in VideoFolders : videoDirs[fp].st = "ok" }
FailingBookFolders == { fp \in BookFolders : bookDirs[fp].st = "bad" }
FailingVideoFolders == { fp \in VideoFolders : videoDirs[fp].st = "bad" }

StatsWithoutTime(st) == [st EXCEPT !.last_updated = 0]

\* C5: of two rebuilds in a row (no change of the filesystem in between),
\* the second returns the same set of books and the same set of videos as the
\* first, in whatever order, and the same stats but for last_updated, in the
\* catalog returned and in the file saved.
C5_RebuildIdempotent ==
    [][ (last.op = "rebuild" /\ last'.op = "rebuild") =>
          /\ Elems(last'.result.books) = Elems(last.result.books)
          /\ Elems(last'.result.videos) = Elems(last.result.videos)
          /\ StatsWithoutTime(get_stats(last'.result))
                = StatsWithoutTime(get_stats(last.result))
          /\ StatsWithoutTime(catalogFile'.stats) = StatsWithoutTime(catalogFile.stats)
          /\ Elems(catalogFile'.books) = Elems(catalogFile.books)
          /\ Elems(catalogFile'.videos) = Elems(catalogFile.videos)
      ]_vars

\* a second rebuild in a row has returned two books and a video
C5_Witness ==
    /\ last.op = "rebuild" /\ last.prev.op = "rebuild"
    /\ Len(last.result.books) = 2
    /\ Len(last.result.videos) = 1

\* C6: rebuild raises nothing, warns once for each folder whose manifest
\* fails to parse or validate, and returns and saves the catalog of exactly
\* the resources whose manifest loads, each as its manifest has it.
C6_RebuildSkipsBrokenManifests ==
    last.op = "rebuild" =>
        LET B == last.result.books
            V == last.result.videos
        IN  /\ last.ok
            /\ last.warnings = FailingBookFolders \cup FailingVideoFolders
            /\ Len(B) = Cardinality(ValidBookFolders)
            /\ Len(V) = Cardinality(ValidVideoFolders)
            /\ BookPaths(B) = ValidBookFolders
            /\ VideoPaths(V) = ValidVideoFolders
            /\ \A i \in 1..Len(B) : B[i].manifest = bookDirs[B[i].folder_path].m
            /\ \A i \in 1..Len(V) : V[i].manifest = videoDirs[V[i].folder_path].m
            /\ catalogFile.st = "ok"
            /\ catalogFile.books = [i \in 1..Len(B) |-> BookEntry(B[i])]
            /\ catalogFile.videos = [i \in 1..Len(V) |-> VideoEntry(V[i])]
            /\ catalogFile.stats.total_items = Len(B) + Len(V)

\* a rebuild has warned about a broken manifest and catalogued a valid book
C6_Witness ==
    /\ last.op = "rebuild"
    /\ last.warnings # {}
    /\ Len(last.result.books) >= 1

\* C7: whatever the catalog file was, rebuild completes with the resources
\* of the folders whose manifest loads, and a load right after it succeeds and
\* returns exactly these resources.
C7_RebuildIgnoresCatalogFile ==
    last.op = "rebuild" =>
        /\ last.ok
        /\ BookPaths(last.result.books) = ValidBookFolders
        /\ VideoPaths(last.result.videos) = ValidVideoFolders
        /\ LoadCatalog.ok
        /\ LoadCatalog.catalog.books = last.result.books
        /\ LoadCatalog.catalog.videos = last.result.videos

\* a rebuild run on an unparseable catalog file has found resources, and the
\* catalog loads again
C7_Witness ==
    /\ last.op = "rebuild"
    /\ last.prev.op = "corrupt_catalog"
    /\ Len(last.result.books) + Len(last.result.videos) >= 2
    /\ LoadCatalog.ok

C9_LoadReadsManifests ==
    (last.op = "load" /\ last.ok) =>
        /\ \A i \in 1..Len(last.result.books) :
              LET b == last.result.books[i]
                  m == bookDirs[b.folder_path].m
              IN  /\ bookDirs[b.folder_path].st = "ok"
                  /\ b.manifest.title = m.title /\ b.manifest.author = m.author
                  /\ b.manifest.categories = m.categories /\ b.manifest.tags = m.tags
        /\ \A i \in 1..Len(last.result.videos) :
              LET v == last.result.videos[i]
                  m == videoDirs[v.folder_path].m
              IN  /\ videoDirs[v.folder_path].st = "ok"
                  /\ v.manifest.title = m.title
                  /\ v.manifest.channelTitle = m.channelTitle
                  /\ v.manifest.channelId = m.channelId
                  /\ v.manifest.categories = m.categories /\ v.manifest.tags = m.tags

\* a load has returned a book under a title that the catalog file's entry of
\* its folder does not have: the manifest was changed after the last save
C9_Witness ==
    /\ last.op = "load" /\ last.ok
    /\ catalogFile.st = "ok"
    /\ \E i \in 1..Len(last.result.books), j \in 1..Len(catalogFile.books) :
          /\ catalogFile.books[j].folder_path = last.result.books[i].folder_path
          /\ catalogFile.books[j].title # last.result.books[i].manifest.title
          /\ last.result.books[i].manifest.title
                = bookDirs[last.result.books[i].folder_path].m.title

\* The folders of the resources the catalog file lists
ListedBookPaths == { catalogFile.books[i].folder_path : i \in 1..Len(catalogFile.books) }
ListedVideoPaths == { catalogFile.videos[i].folder_path : i \in 1..Len(catalogFile.videos) }

\* C10: when two concurrent invocations of add_book / add_video / rebuild
\* have both completed, the catalog file lists exactly what the one that saved
\* last had loaded (or scanned) itself plus the resource it added: whatever
\* the other one saved in between is overwritten.
C10_LastSaveWins ==
    \A p, q \in Procs :
        ( /\ p # q
          /\ procs[p].pc = "done" /\ procs[q].pc = "done"
          /\ procs[p].savedAt > procs[q].savedAt ) =>
            LET own == procs[p]
            IN  /\ catalogFile.st = "ok"
                /\ ListedBookPaths =
                      BookPaths(own.local.books) \cup
                      (IF own.op = "add_book" THEN {own.book.folder_path} ELSE {})
                /\ ListedVideoPaths =
                      { f \in VideoPaths(own.local.videos) :
                          \/ own.op # "add_video"
                          \/ \E i \in 1..Len(own.local.videos) :
                                /\ own.local.videos[i].folder_path = f
                                /\ own.local.videos[i].manifest.videoId
                                      # own.video.manifest.videoId } \cup
                      (IF own.op = "add_video" THEN {own.video.folder_path} ELSE {})

\* both invocations have completed without error, the one that saved first
\* had loaded before the other saved, and the catalog file lacks the book or
\* the video that it added
C10_Witness ==
    \E p, q \in Procs :
        /\ p # q
        /\ procs[p].pc = "done" /\ procs[q].pc = "done"
        /\ procs[q].savedAt < procs[p].savedAt
        /\ procs[p].loadedAt <= procs[q].savedAt
        /\ \/ procs[q].op = "add_book" /\ procs[q].book.folder_path \notin ListedBookPaths
           \/ procs[q].op = "add_video" /\ procs[q].video.folder_path \notin ListedVideoPaths

\* The book filters / video filters with only the k-th of them kept
OnlyFilter(q, k) == [i \in 1..4 |-> IF i = k THEN q[i] ELSE Omitted]
BooksFiltered(c, q) == search_books(c, q[1], q[2], q[3], q[4])
VideosFiltered(c, q) == search_videos(c, q[1], q[2], q[3], q[4])

\* C11: a search with several filters returns exactly the resources, in
\* catalog order, that each of its filters alone returns: search_books(author
\* = a, category = c) is search_books(author = a) intersected with
\* search_books(category = c), and so for every combination of the four
\* filters of search_books and of search_videos.
C11_SearchComposes ==
    /\ (last.op = "search_books" /\ last.ok) =>
          last.found = SelectSeq(last.loaded.books, LAMBDA b :
              \A k \in 1..4 : b \in Elems(BooksFiltered(last.loaded, OnlyFilter(last.query, k))))
    /\ (last.op = "search_videos" /\ last.ok) =>
          last.found = SelectSeq(last.loaded.videos, LAMBDA v :
              \A k \in 1..4 : v \in Elems(VideosFiltered(last.loaded, OnlyFilter(last.query, k))))

\* a search by author and category has returned a book, and fewer books than
\* the author alone and than the category alone return
C11_Witness ==
    /\ last.op = "search_books" /\ last.ok
    /\ Truthy(last.query[1]) /\ Truthy(last.query[2])
    /\ Len(last.found) >= 1
    /\ Len(BooksFiltered(last.loaded, OnlyFilter(last.query, 1))) > Len(last.found)
    /\ Len(BooksFiltered(last.loaded, OnlyFilter(last.query, 2))) >= Len(last.found)
    /\ Len(last.loaded.books) > Len(BooksFiltered(last.loaded, OnlyFilter(last.query, 2)))

\* What the filters ask of a book / a video: every supplied filter (every
\* one that is not None) is, lower-cased, a substring of the lower-cased field
\* or of a lower-cased element of the list
BookMatches(b, q) ==
    /\ q[1] # Omitted => LowerIn(q[1][1], b.manifest.author)
    /\ q[2] # Omitted => AnyLowerIn(q[2][1], b.manifest.categories)
    /\ q[3] # Omitted => AnyLowerIn(q[3][1], b.manifest.tags)
    /\ q[4] # Omitted => LowerIn(q[4][1], b.manifest.title)

VideoMatches(v, q) ==
    /\ q[1] # Omitted => LowerIn(q[1][1], v.manifest.channelTitle)
    /\ q[2] # Omitted => AnyLowerIn(q[2][1], v.manifest.categories)
    /\ q[3] # Omitted => AnyLowerIn(q[3][1], v.manifest.tags)
    /\ q[4] # Omitted => LowerIn(q[4][1], v.manifest.title)

\* C12: search_books / search_videos return, in catalog order, exactly the
\* resources that match every supplied filter by case-insensitive substring
\* (for categories and tags: in at least one element); with no filter, all.
C12_SearchMatchesSubstrings ==
    /\ (last.op = "search_books" /\ last.ok) =>
          last.found = SelectSeq(last.loaded.books, LAMBDA b : BookMatches(b, last.query))
    /\ (last.op = "search_videos" /\ last.ok) =>
          last.found = SelectSeq(last.loaded.videos, LAMBDA v : VideoMatches(v, last.query))

\* C13: find_book returns the first book, in catalog order, whose title
\* is the argument up to case, and None when there is none; find_video returns
\* the (first) video whose video_id is exactly the argument, or None.
C13_FindFirstMatch ==
    /\ (last.op = "find_book" /\ last.ok) =>
          LET B == last.loaded.books
              hits == { i \in 1..Len(B) : Lower(B[i].manifest.title) = Lower(last.query[1]) }
          IN  IF hits = {} THEN last.found = <<>>
              ELSE \E i \in hits : /\ \A j \in hits : i <= j
                                    /\ last.found = <<B[i]>>
    /\ (last.op = "find_video" /\ last.ok) =>
          LET V == last.loaded.videos
              hits == { i \in 1..Len(V) : V[i].manifest.videoId = last.query[1] }
          IN  IF hits = {} THEN last.found = <<>>
              ELSE \E i \in hits : /\ \A j \in hits : i <= j
                                    /\ last.found = <<V[i]>>

\* find_book, asked in another case for a title that two books bear, has
\* returned the first of them
C13_Witness ==
    /\ last.op = "find_book" /\ last.ok
    /\ Len(last.loaded.books) = 2
    /\ last.loaded.books[1].manifest.title = last.loaded.books[2].manifest.title
    /\ last.loaded.books[1] # last.loaded.books[2]
    /\ last.query[1] # last.loaded.books[1].manifest.title
    /\ last.found = <<last.loaded.books[1]>>

(***************************************************************************)
(* Properties of the generated index files.                                *)
(***************************************************************************)
\* the content of every index file apart from its "Last updated" line
IndexBodies(idx) ==
    [readme |-> idx.readme.body, authors |-> idx.authors.body,
     titles |-> idx.titles.body, channels |-> idx.channels.body,
     video_titles |-> idx.video_titles.body, categories |-> idx.categories.body,
     channel |-> [d \in ChannelDirs |-> idx.channel[d].body],
     book |-> idx.book, video |-> idx.video]

\* C14: a generate_all_indices that directly follows another one, on the same
\* catalog and with no other change of the file system in between, leaves in
\* every index file the content the first one wrote, the last-updated
\* timestamps apart.
C14_GenerateTwiceSame ==
    [][(/\ last.op = "generate_all_indices" /\ last.ok
        /\ last'.op = "generate_all_indices" /\ last'.ok)
       => IndexBodies(indexFiles') = IndexBodies(indexFiles)]_vars

(***************************************************************************)
(* Properties of ingestion.                                                *)
(***************************************************************************)
\* the folder book ingestion computes from a title and an author
DestinationOfBook(title, author) == <<"books">> \o create_book_folder_path(title, author)

\* C15: an ingestion whose destination folder (computed from title and author
\* for a book, from channel and video id for a video) exists fails with the
\* already-exists error and leaves the folder, its manifest and every other
\* file as they were.
C15_IngestNeverOverwrites ==
    [][/\ \A fp \in BookFolders :
            (/\ last'.op = "ingest_book"
             /\ last'.input # <<>>
             /\ DeterminedTitle(last'.input[1]) # ""
             /\ DeterminedAuthor(last'.input[1]) # ""
             /\ fp = DestinationOfBook(DeterminedTitle(last'.input[1]),
                                       DeterminedAuthor(last'.input[1]))
             /\ BookFolderExists(fp))
            => (/\ ~last'.ok /\ last'.error = "exists"
                /\ UNCHANGED <<bookDirs, videoDirs, mtimes, indexFiles, files, catalogFile>>)
       /\ \A fp \in VideoFolders :
            (/\ last'.op = "ingest_video"
             /\ last'.input # <<>>
             /\ fp = IngestedVideoFolder(last'.input[1])
             /\ VideoFolderExists(fp))
            => (/\ ~last'.ok /\ last'.error = "exists"
                /\ UNCHANGED <<bookDirs, videoDirs, mtimes, indexFiles, files, catalogFile>>)]_vars

\* a second ingestion of a book was refused and the manifest edited by hand
\* after the first one is still in the folder
C15_Witness ==
    /\ last.op = "ingest_book" /\ ~last.ok /\ last.error = "exists"
    /\ bookDirs[last.path].st = "ok"
    /\ bookDirs[last.path].m.title = "Gamma"

\* C16: a book ingestion for which no title or no author is found (not in the
\* arguments, the EPUB metadata or the extracted text) and a video ingestion
\* whose metadata lacks the video id, the title, the channel id or the channel
\* title fail with the validation error, and no folder or manifest is created.
C16_IngestValidates ==
    [][/\ (/\ last'.op = "ingest_book" /\ last'.input # <<>>
            /\ LET in == last'.input[1]
               IN  \/ (in.title = "" /\ epub_metadata(in).title = ""
                                    /\ extracted_metadata(in).title = "")
                   \/ (in.author = "" /\ epub_metadata(in).author = ""
                                     /\ extracted_metadata(in).author = ""))
           => (/\ ~last'.ok /\ last'.error = "validation"
               /\ UNCHANGED <<bookDirs, videoDirs, mtimes>>)
       /\ (/\ last'.op = "ingest_video" /\ last'.input # <<>>
            /\ LET in == last'.input[1]
               IN  "" \in {in.videoId, in.title, in.channelId, in.channelTitle})
           => (/\ ~last'.ok /\ last'.error = "validation"
               /\ UNCHANGED <<bookDirs, videoDirs, mtimes>>)]_vars

\* a book ingestion was refused for want of an author although the file
\* yielded a title
C16_Witness ==
    /\ last.op = "ingest_book" /\ ~last.ok /\ last.error = "validation"
    /\ DeterminedTitle(last.input[1]) = "Beta"
    /\ DeterminedAuthor(last.input[1]) = ""

PathsOf(seq) == [i \in 1..Len(seq) |-> seq[i].folder_path]

\* C20: load leaves out every entry of the catalog file whose folder is no
\* longer there and returns every other entry, in the file's order; an entry
\* without its folder never makes load fail (load fails only on a file that
\* does not parse or on a folder that is there with a broken manifest).
C20_LoadOmitsStaleEntries ==
    [][(last'.op = "load" /\ catalogFile.st = "ok") =>
          /\ last'.ok =>
                /\ PathsOf(last'.result.books)
                      = SelectSeq(PathsOf(catalogFile.books), BookFolderExists)
                /\ PathsOf(last'.result.videos)
                      = SelectSeq(PathsOf(catalogFile.videos), VideoFolderExists)
          /\ ~last'.ok =>
                \/ \E i \in 1..Len(catalogFile.books) :
                      bookDirs[catalogFile.books[i].folder_path].st \in {"nomf", "bad"}
                \/ \E i \in 1..Len(catalogFile.videos) :
                      videoDirs[catalogFile.videos[i].folder_path].st \in {"nomf", "bad"}
      ]_vars

\* a load has returned one of two listed books, the folder of the other one
\* having been deleted
C20_Witness ==
    /\ last.op = "load" /\ last.ok
    /\ last.prev.op = "delete_folder"
    /\ catalogFile.st = "ok"
    /\ Len(catalogFile.books) = 2
    /\ Len(last.result.books) = 1
    /\ \E i \in 1..2 : ~BookFolderExists(catalogFile.books[i].folder_path)

(***************************************************************************)
(* The depth of the scan.                                                  *)
(***************************************************************************)
\* a folder two levels below books/ or videos/, not under _index
TwoLevelsBelow(fp, top) == Len(fp) = 3 /\ fp[1] = top /\ fp[2] # "_index"

\* C21: rebuild() returns exactly the resources whose folder lies two levels
\* below books/ (author, book) or videos/ (channel, video), is not under a
\* first-level folder named _index, and holds a manifest that loads, each of
\* them once and with the manifest of its folder; a manifest at any other depth
\* is not cataloged; a library without resource folders gives books == [],
\* videos == [] and stats.total_items == 0.
C21_RebuildScansTwoLevels ==
    [][last'.op = "rebuild" =>
         LET c == last'.result
         IN  /\ BookPaths(c.books) =
                  { fp \in DOMAIN bookDirs :
                      TwoLevelsBelow(fp, "books") /\ bookDirs[fp].st = "ok" }
             /\ VideoPaths(c.videos) =
                  { fp \in DOMAIN videoDirs :
                      TwoLevelsBelow(fp, "videos") /\ videoDirs[fp].st = "ok" }
             /\ Len(c.books) = Cardinality(BookPaths(c.books))
             /\ Len(c.videos) = Cardinality(VideoPaths(c.videos))
             /\ \A i \in 1..Len(c.books) :
                   c.books[i].manifest = bookDirs[c.books[i].folder_path].m
             /\ \A i \in 1..Len(c.videos) :
                   c.videos[i].manifest = videoDirs[c.videos[i].folder_path].m
             /\ ((\A fp \in DOMAIN bookDirs : bookDirs[fp].st = "absent") /\
                 (\A fp \in DOMAIN videoDirs : videoDirs[fp].st = "absent"))
                   => /\ c.books = <<>> /\ c.videos = <<>>
                      /\ get_stats(c).total_items = 0
                      /\ catalogFile'.stats.total_items = 0
    ]_vars

\* a rebuild that cataloged a book folder while manifests that load lay under
\* _index, in the author folder and below the book folder
C21_Witness ==
    /\ last.op = "rebuild"
    /\ BookPaths(last.result.books) = {<<"books", "doe-jane", "alpha">>}
    /\ \A fp \in OddBookPaths : bookDirs[fp].st = "ok"
    /\ \A fp \in OddVideoPaths : videoDirs[fp].st = "ok"
    /\ videoDirs[<<"videos", "chan-one__UC1", "X__alpha">>].st = "ok"
    /\ Len(last.result.videos) = 1

(***************************************************************************)
(* The index files as a rendering of the catalog.                          *)
(***************************************************************************)
\* what generate_all_indices leaves for a catalog in a library never indexed
\* (generated at the time the library was created)
FreshIndices(c) == generate_all_indices(c, NoIndexFiles, 0)

\* an index file is there once a generation wrote it
Written(f) == f.stamp # None

\* two index files are the same apart from their timestamps
SameApartFromStamp(f, g) == (Written(f) <=> Written(g)) /\ f.body = g.body

\* C22: the index files left by generate_all_indices(C) are determined by C
\* alone: after any earlier generations, the videos-by-channel, videos-by-title,
\* category and per-channel index files are those a first generation for C
\* leaves in a library never indexed, timestamps apart; no category index
\* exists after generating for a catalog without categories.
C22_IndicesDeterminedByCatalog ==
    [][(last'.op = "generate_all_indices" /\ last'.ok) =>
         LET c == last'.loaded
         IN  /\ SameApartFromStamp(indexFiles'.channels, FreshIndices(c).channels)
             /\ SameApartFromStamp(indexFiles'.video_titles, FreshIndices(c).video_titles)
             /\ SameApartFromStamp(indexFiles'.categories, FreshIndices(c).categories)
             /\ \A d \in ChannelDirs :
                   SameApartFromStamp(indexFiles'.channel[d], FreshIndices(c).channel[d])
             /\ get_all_categories(c) = {} => ~Written(indexFiles'.categories)
    ]_vars

(***************************************************************************)
(* The failure policy of the index generation.                             *)
(***************************************************************************)
\* C23: generate_all_indices completes for every loaded catalog, whichever
\* optional fields of its resources are absent (a video without published_at
\* beside videos that have one, a resource without categories): it raises
\* nothing and every book and every video of the catalog has its index.md
\* written from its manifest.
C23_GenerationCompletes ==
    [][(last'.op = "generate_all_indices" /\ LoadCatalog.ok) =>
         LET c == last'.loaded
         IN  /\ last'.ok
             /\ \A i \in 1..Len(c.books) :
                   indexFiles'.book[c.books[i].folder_path]
                       = <<generate_book_index(LastOf(c.books, c.books[i].folder_path))>>
             /\ \A i \in 1..Len(c.videos) :
                   indexFiles'.video[c.videos[i].folder_path]
                       = <<generate_video_index(LastOf(c.videos, c.videos[i].folder_path))>>
    ]_vars

(***************************************************************************)
(* The flows of the command line: ingestion, catalog, indices.             *)
(***************************************************************************)
\* the catalog file lists the resource an invocation ingested
Listed(p) ==
    IF procs[p].op = "video fetch"
    THEN \E i \in 1..Len(catalogFile.videos) :
            catalogFile.videos[i].folder_path = procs[p].video.folder_path
    ELSE \E i \in 1..Len(catalogFile.books) :
            catalogFile.books[i].folder_path = procs[p].book.folder_path

\* C24: in rl book add, rl book import-folder and rl video fetch the catalog
\* file is written only after ingestion has returned a resource (its manifest
\* saved), and the indices are generated only after the catalog was saved and
\* reloaded with that resource in it; ingestion itself writes neither: while it
\* runs, and when it fails, the catalog file and the index files are exactly
\* as the command found them.
C24_CatalogAfterIngestion ==
    /\ [](\A p \in Procs :
            (\/ procs[p].pc \in {"mkdir", "ingested"}
             \/ (procs[p].pc = "failed" /\ procs[p].error \in {"validation", "exists", "io"}))
              => <<catalogFile, indexFiles>> = procs[p].before)
    /\ [][/\ catalogFile' # catalogFile =>
                \E p \in Procs :
                    /\ procs[p].pc = "ingested" /\ procs'[p].pc = "saved"
                    /\ IF procs[p].op = "video fetch"
                       THEN videoDirs[Destination(p)] = Folder("ok", procs[p].video.manifest)
                       ELSE bookDirs[Destination(p)] = Folder("ok", procs[p].book.manifest)
          /\ indexFiles' # indexFiles =>
                \E p \in Procs :
                    /\ procs[p].pc = "saved" /\ Listed(p)
                    /\ LoadCatalog.ok
                    /\ indexFiles' = generate_all_indices(LoadCatalog.catalog, indexFiles, now)
       ]_vars

\* a command whose ingestion failed while writing, in a library that an
\* earlier command had filled and indexed
C24_Witness ==
    /\ procs["p1"].pc = "failed" /\ procs["p1"].error = "io"
    /\ catalogFile.books # <<>>
    /\ indexFiles.readme.stamp # None
    /\ <<catalogFile, indexFiles>> = procs["p1"].before

(***************************************************************************)
(* A listed folder whose manifest does not load.                           *)
(***************************************************************************)
\* the catalog file lists a folder that is there but whose manifest is missing
\* or fails to parse
ListsBrokenFolder ==
    /\ catalogFile.st = "ok"
    /\ \/ \E i \in 1..Len(catalogFile.books) :
            bookDirs[catalogFile.books[i].folder_path].st \in {"nomf", "bad"}
       \/ \E i \in 1..Len(catalogFile.videos) :
            videoDirs[catalogFile.videos[i].folder_path].st \in {"nomf", "bad"}

\* C25: while the catalog file lists a folder that exists but whose manifest
\* is missing or fails to parse, load() raises, and add_book, add_video,
\* remove_book and remove_video raise before saving and leave the catalog file
\* unchanged (so the condition stays); rebuild() succeeds and clears it.
C25_BrokenEntryBlocksUpdates ==
    [][/\ (ListsBrokenFolder /\
           last'.op \in {"load", "add_book", "add_video", "remove_book", "remove_video"})
             => (/\ ~last'.ok
                 /\ catalogFile' = catalogFile
                 /\ ListsBrokenFolder')
       /\ last'.op = "rebuild" => (last'.ok /\ ~ListsBrokenFolder' /\ LoadCatalog'.ok)
    ]_vars

\* a remove_book that failed because another listed book's manifest was broken
C25_Witness ==
    /\ last.op = "remove_book" /\ ~last.ok
    /\ ListsBrokenFolder
    /\ \E i \in 1..Len(catalogFile.books) :
          /\ catalogFile.books[i].folder_path = last.path
          /\ bookDirs[last.path].st = "ok"

\* the entries of the catalog file whose folder is on the disk
BookEntriesOnDisk == SelectSeq(catalogFile.books, LAMBDA e : BookFolderExists(e.folder_path))
VideoEntriesOnDisk == SelectSeq(catalogFile.videos, LAMBDA e : VideoFolderExists(e.folder_path))

\* C26: add_book(b) and add_video(v) change only the entry with the matching
\* key. After a successful add_book(b) the book entries of the file other
\* than that of b.folder_path are the entries it held before whose folder
\* exists, unchanged and in the same order, and the video entries are those it
\* held before whose folder exists; after add_video(v) the same with the
\* kinds exchanged and the key video_id. An add that fails leaves the file as
\* it was.
C26_AddChangesOneEntry ==
    [][ /\ (last'.op = "add_book" /\ last'.ok) =>
            /\ SelectSeq(catalogFile'.books,
                         LAMBDA e : e.folder_path # last'.book.folder_path)
                 = SelectSeq(BookEntriesOnDisk,
                             LAMBDA e : e.folder_path # last'.book.folder_path)
            /\ catalogFile'.videos = VideoEntriesOnDisk
        /\ (last'.op = "add_video" /\ last'.ok) =>
            /\ SelectSeq(catalogFile'.videos,
                         LAMBDA e : e.video_id # last'.video.manifest.videoId)
                 = SelectSeq(VideoEntriesOnDisk,
                             LAMBDA e : e.video_id # last'.video.manifest.videoId)
            /\ catalogFile'.books = BookEntriesOnDisk
        /\ (last'.op \in {"add_book", "add_video"} /\ ~last'.ok) =>
            catalogFile' = catalogFile ]_vars

\* add_video has replaced the entry of a video in a catalog that listed
\* another video after it and a book, and has dropped the entry of a book
\* whose folder was gone
C26_Witness ==
    /\ last.op = "add_video" /\ last.ok
    /\ Len(last.loaded.videos) = 2
    /\ last.loaded.videos[1].manifest.videoId = last.video.manifest.videoId
    /\ Len(catalogFile.videos) = 2
    /\ Len(catalogFile.books) = 1
    /\ \E fp \in DOMAIN bookDirs : ~BookFolderExists(fp)

\* the last call was a catalog operation that saved the catalog: a rebuild,
\* an add of a resource whose folder is in the library, or a removal that
\* found its entry
JustSaved ==
    \/ last.op = "rebuild"
    \/ last.op = "add_book" /\ last.ok /\ last.book.folder_path \in DOMAIN bookDirs
                            /\ BookFolderExists(last.book.folder_path)
    \/ last.op = "add_video" /\ last.ok /\ last.video.folder_path \in DOMAIN videoDirs
                             /\ VideoFolderExists(last.video.folder_path)
    \/ last.op \in {"remove_book", "remove_video"} /\ last.ok /\ last.ret

\* C27: right after rebuild, a successful add_book / add_video of an
\* ingested resource, or a remove_book / remove_video that saved, and before
\* anything else touches the library, load succeeds and returns the books of
\* the saved catalog (by folder_path) and its videos (by video_id), which are
\* also those listed in the catalog file.
C27_LoadReturnsWhatWasSaved ==
    JustSaved =>
        /\ LoadCatalog.ok
        /\ { b.folder_path : b \in Elems(LoadCatalog.catalog.books) }
             = { b.folder_path : b \in Elems(last.result.books) }
        /\ { v.manifest.videoId : v \in Elems(LoadCatalog.catalog.videos) }
             = { v.manifest.videoId : v \in Elems(last.result.videos) }
        /\ { e.folder_path : e \in Elems(catalogFile.books) }
             = { b.folder_path : b \in Elems(last.result.books) }
        /\ { e.video_id : e \in Elems(catalogFile.videos) }
             = { v.manifest.videoId : v \in Elems(last.result.videos) }

\* remove_book has saved a catalog that still lists a book and a video
C27_Witness ==
    /\ last.op = "remove_book" /\ last.ok /\ last.ret
    /\ last.result.books # <<>>
    /\ last.result.videos # <<>>
    /\ LoadCatalog.ok

\* the files a book / video folder's manifest names are in the folder
BookFilesWritten(fp, m) == BookFiles(m) \subseteq files[fp]
VideoFilesWritten(fp, m) == VideoFiles(m) \subseteq files[fp]

\* C28: ingestion writes the manifest as its last file. In every state, a
\* destination folder that holds manifest.yaml holds every file named in the
\* manifest's formats, summaries and source mapping; so every resource a
\* rebuild has cataloged, and every entry of the catalog file, has its
\* referenced files in its folder.
C28_ManifestWrittenLast ==
    /\ \A fp \in DOMAIN bookDirs :
         bookDirs[fp].st = "ok" => BookFilesWritten(fp, bookDirs[fp].m)
    /\ \A fp \in DOMAIN videoDirs :
         videoDirs[fp].st = "ok" => VideoFilesWritten(fp, videoDirs[fp].m)
    /\ last.op = "rebuild" =>
         /\ \A b \in Elems(last.result.books) : BookFilesWritten(b.folder_path, b.manifest)
         /\ \A v \in Elems(last.result.videos) : VideoFilesWritten(v.folder_path, v.manifest)
    /\ \A e \in Elems(catalogFile.books) :
         BookFilesWritten(e.folder_path, BookFromFolder(e.folder_path).book.manifest)
    /\ \A e \in Elems(catalogFile.videos) :
         VideoFilesWritten(e.folder_path, VideoFromFolder(e.folder_path).video.manifest)

\* a rebuild has run while an import had written some of the book's files
\* and not yet its manifest: it cataloged an earlier video and not the book
C28_Witness ==
    /\ last.op = "rebuild"
    /\ procs["p1"].pc = "mkdir"
    /\ procs["p1"].op = "book import-folder"
    /\ files[Destination("p1")] # {}
    /\ files[Destination("p1")] # DestinationFiles("p1")
    /\ last.result.videos # <<>>
    /\ \A b \in Elems(last.result.books) : b.folder_path # Destination("p1")

\* the state of the folder an invocation ingests into
DestinationFolder(p) ==
    IF procs[p].op = "video fetch" THEN videoDirs[Destination(p)]
    ELSE bookDirs[Destination(p)]

\* C29: ingestion is all-or-nothing on disk. An ingestion that raised while
\* copying or writing has left no destination folder, and so an ingestion
\* that raises the already-exists error has found the folder of a completed
\* ingestion, never the remains of a failed one.
C29_IngestionAllOrNothing ==
    \A p \in Procs :
        /\ (procs[p].pc = "failed" /\ procs[p].error = "io") =>
               DestinationFolder(p).st = "absent"
        /\ (procs[p].pc = "failed" /\ procs[p].error = "exists") =>
               DestinationFolder(p).st = "ok"

\* An index file as the target of a link: the kind of index and, for the
\* index.md of a channel, book or video folder, the folder
Target(kind, path) == [kind |-> kind, path |-> path]
Home == Target("readme", <<>>)
ResourceIndices(seq, kind) == { Target(kind, x.folder_path) : x \in Elems(seq) }

\* the index files each generated file links to
root_readme_links(c) ==
    {Target("authors", <<>>), Target("titles", <<>>)}
    \cup (IF get_stats(c).total_videos > 0
          THEN {Target("channels", <<>>), Target("video_titles", <<>>)} ELSE {})
    \cup (IF get_stats(c).unique_categories > 0 THEN {Target("categories", <<>>)} ELSE {})
    \cup ResourceIndices(_get_recent_additions(c), "book")
authors_index_links(c) == {Home} \cup ResourceIndices(c.books, "book")
titles_index_links(c) == {Home} \cup ResourceIndices(c.books, "book")
channels_index_links(c) ==
    {Home} \cup { Target("channel", SubSeq(v.folder_path, 1, 2)) : v \in Elems(c.videos) }
           \cup ResourceIndices(c.videos, "video")
video_titles_index_links(c) == {Home} \cup ResourceIndices(c.videos, "video")
channel_index_links(c, dir) ==
    {Target("channels", <<>>), Home}
    \cup ResourceIndices(videos_by_channel_dir(c, dir), "video")
category_index_links(c) ==
    {Home} \cup { Target(it[2], it[4]) : it \in Elems(generate_category_index(c)) }
book_index_links(book) ==
    {Home, Target("authors", <<>>), Target("titles", <<>>), Target("categories", <<>>)}
video_index_links(video) ==
    {Home, Target("channels", <<>>), Target("video_titles", <<>>), Target("categories", <<>>)}

\* the links of all the files a generate_all_indices(c) that returns writes
generated_links(c) ==
    root_readme_links(c) \cup authors_index_links(c) \cup titles_index_links(c)
    \cup (IF c.videos = <<>> THEN {}
          ELSE channels_index_links(c) \cup video_titles_index_links(c))
    \cup (IF generate_category_index(c) = <<>> THEN {} ELSE category_index_links(c))
    \cup UNION { channel_index_links(c, d) :
                   d \in { e \in ChannelDirs : channel_index_written(c, e) } }
    \cup UNION { book_index_links(b) : b \in Elems(c.books) }
    \cup UNION { video_index_links(v) : v \in Elems(c.videos) }

\* the index file is on the disk: authors.md, titles.md and channels.md are
\* there since initialize, the others once a generation has written them
index_exists(t) ==
    CASE t.kind \in {"authors", "titles", "channels"} -> TRUE
      [] t.kind = "readme" -> Written(indexFiles.readme)
      [] t.kind = "video_titles" -> Written(indexFiles.video_titles)
      [] t.kind = "categories" -> Written(indexFiles.categories)
      [] t.kind = "channel" -> Written(indexFiles.channel[t.path])
      [] t.kind = "book" -> indexFiles.book[t.path] # <<>>
      [] t.kind = "video" -> indexFiles.video[t.path] # <<>>

\* C30: after generate_all_indices(C) has returned, every index file that a
\* file it generated links to exists on disk: the master indices the root
\* README links to, the per-resource and per-channel index files the master
\* indices link to, and the library home, the by-author / by-channel and
\* by-title indices and the category index each per-resource index links
\* back to.
C30_LinkedIndicesExist ==
    (last.op = "generate_all_indices" /\ last.ok) =>
        \A t \in generated_links(last.loaded) : index_exists(t)

\* the same without the link of the per-resource indices to the category index
LinksApartFromCategoryExist ==
    (last.op = "generate_all_indices" /\ last.ok) =>
        \A t \in generated_links(last.loaded) :
            t.kind # "categories" => index_exists(t)

====
